---- MODULE Spec2Model ----
(***************************************************************************)
(* FetchTML: the load cycle of the <fetch-list> and <fetch-json> custom    *)
(* elements (fetch-list.js, fetch-json.js).                                *)
(*                                                                         *)
(* One element of each kind is modelled together with its parent node.     *)
(* The document is the sequence of the parent's children (parentKids) and  *)
(* the sequence of the element's own children (inner).  A load cycle is    *)
(* one invocation of the async function processFetchList: its synchronous  *)
(* part up to `await fetcher(...)` is one step, the part after the await   *)
(* is one step (Settle); processFetchJsonElement likewise.  User hooks     *)
(* log their invocation and either                                         *)
(* return or throw.  Elements carry a url attribute and a fetch            *)
(* implementation exists.                                                  *)
(***************************************************************************)
EXTENDS Integers, Sequences, FiniteSets, TLC

VARIABLES
  cfg,            \* attributes of the fetch-list element and template layout
  state,          \* data-state attribute of the fetch-list ("none" = absent)
  inner,          \* children of the fetch-list element
  parentKids,     \* children of the element's parent node
  replacedNodes,  \* element._fetchtmlReplacedNodes (<<>> when null)
  anchor,         \* element._fetchtmlReplaceAnchor has been created
  controller,     \* "none" | "attached" | "destroyed"
  currentOptions, \* options stored in the controller closure
  lazy,           \* "none" | "observer" | "timer": pending lazy trigger
  calls,          \* load cycles: the invocations of processFetchList
  cycles,         \* number of load cycles started so far
  last,           \* record of the load cycle that settled most recently
  jcfg,           \* attributes of the fetch-json element
  jstate,         \* data-state attribute of the fetch-json element
  jinner,         \* children of the fetch-json element
  jsched,         \* element._fetchtmlLazyScheduled and the options scheduled
  jcalls,         \* load cycles of the fetch-json element
  jcycles,        \* number of fetch-json load cycles started so far
  jlast,          \* record of the fetch-json cycle that settled most recently
  hcfg,           \* attributes of each fetch-html element
  hstate,         \* data-state attribute of each fetch-html element
  hattached,      \* whether each fetch-html element is in the document
  hinner,         \* whether fetched markup was inserted into the element
  hsched,         \* _fetchtmlLazyScheduled of each fetch-html element
  hfetch,         \* outstanding fetches of each fetch-html element
  hbatch,         \* the most recent fetchHtml() call and its promise
  hcycles,        \* number of fetch-html fetches issued so far
  icfg,           \* item templates and attributes of the nested-list page
  idom,           \* element tree produced by the last render of that page
  tin,            \* a template text with one placeholder, and its data
  tout,           \* the text replacePlaceholders returned for it
  treg,           \* the formatter registry: name -> function
  thist,          \* per name, the most recent successful registry call
  tres,           \* the outcome of the last registry call
  trun            \* the renderList call in progress

lvars == <<cfg, state, inner, parentKids, replacedNodes, anchor, controller,
           currentOptions, lazy, calls, cycles, last>>
jvars == <<jcfg, jstate, jinner, jsched, jcalls, jcycles, jlast>>
hvars == <<hcfg, hstate, hattached, hinner, hsched, hfetch, hbatch, hcycles>>
vars == <<cfg, state, inner, parentKids, replacedNodes, anchor, controller,
          currentOptions, lazy, calls, cycles, last,
          jcfg, jstate, jinner, jsched, jcalls, jcycles, jlast,
          hcfg, hstate, hattached, hinner, hsched, hfetch, hbatch, hcycles,
          icfg, idom, tin, tout, treg, thist, tres, trun>>

\* the variables a fetch-list, a fetch-json and a fetch-html step leave alone
ivars == <<icfg, idom>>
tvars == <<tin, tout>>
rvars == <<treg, thist, tres, trun>>
notList == <<jvars, hvars, ivars, tvars, rvars>>
notJson == <<lvars, hvars, ivars, tvars, rvars>>
notHtml == <<lvars, jvars, ivars, tvars, rvars>>
notInner == <<lvars, jvars, hvars, tvars, rvars>>
notTemplate == <<lvars, jvars, hvars, ivars>>

\* ------------------------------------------------------------- bounds
MaxCycles == 2
MaxItems == 2
MaxOutstanding == 2
MaxArgs == 2
MaxParents == 3
MaxDepth == 2
MaxPairs == 2
NumHtml == 2

\* ------------------------------------------------------------- helpers
Range(s) == {s[i] : i \in DOMAIN s}

IndexOf(s, x) == CHOOSE i \in 1..Len(s) : s[i] = x

InsertBefore(s, ref, x) ==
  LET i == IndexOf(s, ref) IN SubSeq(s, 1, i - 1) \o <<x>> \o SubSeq(s, i, Len(s))

InsertAfter(s, ref, x) ==
  LET i == IndexOf(s, ref) IN SubSeq(s, 1, i) \o <<x>> \o SubSeq(s, i + 1, Len(s))

ReplaceWith(s, ref, xs) ==
  LET i == IndexOf(s, ref) IN SubSeq(s, 1, i - 1) \o xs \o SubSeq(s, i + 1, Len(s))

\* ------------------------------------------------------------- constants
STATES == [IDLE |-> "idle", LOADING |-> "loading", READY |-> "ready",
           EMPTY |-> "empty", ERROR |-> "error"]

HookNames == {"onStateChange", "beforeRender", "beforeItemRender", "afterRender",
              "onError", "transform", "request"}

\* The hooks that throw in some of the option objects explored: the state
\* listener, which processFetchList calls inside a try/catch of its own on
\* entering loading and without one on entering ready, empty and error.
ThrowingHooks == {"onStateChange"}

\* ------------------------------------------------------------- nodes
Node(k, c, v) == [k |-> k, c |-> c, v |-> v]
ElNode == Node("fetch-list", 0, 0)
AnchorNode == Node("anchor", 0, 0)
TplNode(w) == Node("template:" \o w, 0, 0)
ViewNode(w) == Node("view:" \o w, 0, 0)
ItemNode(c, v) == Node("item", c, v)

\* ------------------------------------------------------------- options
\* An options object is a function from the hooks it provides to "ok"
\* (the hook returns) or "throws".
NoOptions == [h \in {} |-> "ok"]
AllHooks == [h \in HookNames |-> "ok"]
OptionInputs ==
  {NoOptions, AllHooks} \cup {[AllHooks EXCEPT ![h] = "throws"] : h \in ThrowingHooks}

\* { ...a, ...b }
Merge(a, b) ==
  [k \in DOMAIN a \cup DOMAIN b |-> IF k \in DOMAIN b THEN b[k] ELSE a[k]]

Provided(opts, h) == h \in DOMAIN opts
Throws(opts, h) == h \in DOMAIN opts /\ opts[h] = "throws"

\* ------------------------------------------------------------- fetch outcomes
Failures == {"reject", "notok", "badjson"}
Payloads == {[i \in 1..n |-> i] : n \in 0..MaxItems}
Outcomes ==
  {[kind |-> k, items |-> <<>>] : k \in Failures \cup {"null"}}
    \cup {[kind |-> "array", items |-> p] : p \in Payloads}

\* ------------------------------------------------------------- DOM state
\* The part of the state a load cycle reads and writes, as one record.
Dom(log) ==
  [state |-> state, inner |-> inner, parentKids |-> parentKids,
   replacedNodes |-> replacedNodes, anchor |-> anchor, log |-> log,
   rendered |-> FALSE]

Attached(d) == ElNode \in Range(d.parentKids)
AnchorAttached(d) == AnchorNode \in Range(d.parentKids)

Ev(e, i) == [e |-> e, i |-> i]
Logged(d, e) == [d EXCEPT !.log = Append(@, Ev(e, 0))]

hasReplaceAttribute == cfg.replace

ensureReplaceAnchor(d) ==
  IF ~hasReplaceAttribute THEN d
  ELSE IF ~d.anchor
    THEN [d EXCEPT !.anchor = TRUE,
                   !.parentKids = IF Attached(d)
                                    THEN InsertBefore(@, ElNode, AnchorNode)
                                    ELSE @]
  ELSE IF AnchorAttached(d) /\ ~Attached(d)
    THEN [d EXCEPT !.parentKids = InsertAfter(@, AnchorNode, ElNode)]
  ELSE d

cleanupReplacedNodes(d) ==
  LET Keep(n) == n \notin Range(d.replacedNodes)
  IN [d EXCEPT !.parentKids = SelectSeq(@, Keep), !.replacedNodes = <<>>]

restoreReplaceTarget(d) ==
  IF ~hasReplaceAttribute THEN d
  ELSE LET a == ensureReplaceAnchor(d)
           b == cleanupReplacedNodes(a)
       IN IF ~Attached(b) /\ AnchorAttached(b)
            THEN [b EXCEPT !.parentKids = InsertAfter(@, AnchorNode, ElNode)]
            ELSE b

setState(d, s) == [d EXCEPT !.state = s]

\* templating.findTemplate is document.querySelector: a template is found
\* when it is configured and, if it lives inside the element, still there.
Configured(w) ==
  CASE w = "item" -> cfg.tpl = "found"
    [] w = "placeholder" -> cfg.placeholder
    [] w = "empty" -> cfg.empty
    [] w = "error" -> cfg.error

findTemplate(d, w) ==
  /\ Configured(w)
  /\ cfg.nested => (Attached(d) /\ TplNode(w) \in Range(d.inner))

findStateTemplate(d, w) == findTemplate(d, w)

renderStateTemplate(d, w) == [d EXCEPT !.inner = <<ViewNode(w)>>]

\* the placeholder shown on entering loading
showPlaceholderClears(d) ==
  IF findStateTemplate(d, "placeholder")
    THEN renderStateTemplate(d, "placeholder")
    ELSE [d EXCEPT !.inner = <<>>]

showPlaceholder(d) ==
  IF findStateTemplate(d, "placeholder")
    THEN renderStateTemplate(d, "placeholder")
    ELSE d

\* the empty view, or element.innerHTML = ''
showEmpty(d) ==
  IF findStateTemplate(d, "empty")
    THEN renderStateTemplate(d, "empty")
    ELSE [d EXCEPT !.inner = <<>>]

\* the error view; nothing is done without an error template
showErrorClears(d) ==
  IF findStateTemplate(d, "error")
    THEN renderStateTemplate(d, "error")
    ELSE [d EXCEPT !.inner = <<>>]

showError(d) ==
  IF findStateTemplate(d, "error")
    THEN renderStateTemplate(d, "error")
    ELSE d

\* onStateChange(state), an exception of the hook left to the caller
NotifyState(d, opts, s) ==
  IF Provided(opts, "onStateChange") THEN Logged(d, "state:" \o s) ELSE d

\* A hook called inside its own try/catch: it is invoked, a throw is logged
\* to the console and the caller goes on.
GuardedHook(d, opts, h) == IF Provided(opts, h) THEN Logged(d, h) ELSE d

\* templating.renderList: one rendered node per item, in input order, the
\* per-item hook called before each append.
RenderedNodes(c, items) == [i \in 1..Len(items) |-> ItemNode(c, items[i])]

ItemHookEventsReversed(items, opts) ==
  IF Provided(opts, "beforeItemRender")
    THEN [i \in 1..Len(items) |-> Ev("beforeItemRender", Len(items) - i)]
    ELSE <<>>

ItemHookEvents(items, opts) ==
  IF Provided(opts, "beforeItemRender")
    THEN [i \in 1..Len(items) |-> Ev("beforeItemRender", i - 1)]
    ELSE <<>>

SpliceRendered(d, nodes) ==
  IF hasReplaceAttribute /\ Attached(d)
    THEN [d EXCEPT !.parentKids = ReplaceWith(@, ElNode, nodes),
                   !.replacedNodes = nodes]
    ELSE [d EXCEPT !.inner = nodes, !.replacedNodes = <<>>]

renderItems(d, c, items, opts) ==
  LET d1 == ensureReplaceAnchor(d)
  IN IF cfg.tpl = "absent" THEN d1
     ELSE IF ~findTemplate(d1, "item") THEN d1
     ELSE LET d2 == GuardedHook(d1, opts, "beforeRender")
              d3 == [d2 EXCEPT !.log = @ \o ItemHookEvents(items, opts)]
              d4 == SpliceRendered(d3, RenderedNodes(c, items))
              d5 == GuardedHook(d4, opts, "afterRender")
          IN [d5 EXCEPT !.rendered = TRUE]

\* fetchData after `await fetcher(...)`: a rejected fetch, an invalid
\* response, a non-ok status and a failing json() all throw.
FetchThrowsIgnoresStatus(o) == o.kind \in Failures \ {"notok"}

FetchThrows(o) == o.kind \in Failures

\* Array.isArray(data) ? data : []
ItemsOf(o) == IF o.kind = "array" THEN o.items ELSE <<>>

\* The try block of processFetchList after the await; thrown tells whether
\* control leaves it by an exception.
TryBlock(d, c, o, opts) ==
  IF FetchThrows(o) THEN [dom |-> d, thrown |-> TRUE]
  ELSE LET items == ItemsOf(o)
           d0 == GuardedHook(d, opts, "transform")
       IN IF Len(items) = 0
            THEN LET d1 == setState(d0, STATES.EMPTY)
                     d2 == showEmpty(d1)
                 IN [dom |-> NotifyState(d2, opts, STATES.EMPTY),
                     thrown |-> Throws(opts, "onStateChange")]
            ELSE LET d1 == renderItems(d0, c, items, opts)
                     d2 == setState(d1, STATES.READY)
                 IN [dom |-> NotifyState(d2, opts, STATES.READY),
                     thrown |-> Throws(opts, "onStateChange")]

\* The catch block of processFetchList.
CatchBlock(d, opts) ==
  LET d1 == setState(d, STATES.ERROR)
      d2 == showError(d1)
      d3 == GuardedHook(d2, opts, "onError")
  IN NotifyState(d3, opts, STATES.ERROR)

\* processFetchList from the await on: the resulting DOM state and the
\* outcome of the promise the call returned.
AfterAwaitSwallows(d, c, o, opts) ==
  LET t == TryBlock(d, c, o, opts)
  IN IF t.thrown
       THEN [dom |-> CatchBlock(t.dom, opts), promise |-> "resolved"]
       ELSE [dom |-> t.dom, promise |-> "resolved"]

AfterAwait(d, c, o, opts) ==
  LET t == TryBlock(d, c, o, opts)
  IN IF t.thrown
       THEN [dom |-> CatchBlock(t.dom, opts), promise |-> "rejected"]
       ELSE [dom |-> t.dom, promise |-> "resolved"]

\* processFetchList up to the await without its guard against duplicate
\* loads
BeforeAwaitUnguarded(d, opts) ==
  LET d0 == restoreReplaceTarget(d)
      d1 == setState(d0, STATES.LOADING)
      d2 == showPlaceholder(d1)
      d3 == NotifyState(d2, opts, STATES.LOADING)
      d4 == GuardedHook(d3, opts, "request")
  IN [dom |-> Logged(d4, "fetch"), started |-> TRUE, promise |-> "pending"]

\* processFetchList up to the await: the guard against duplicate loads, the
\* loading state, the placeholder, the notification and the fetch call;
\* promise is the state of the returned promise when the call returns.
BeforeAwait(d, opts) ==
  LET d0 == restoreReplaceTarget(d)
  IN IF d0.state = STATES.LOADING
       THEN [dom |-> d0, started |-> FALSE, promise |-> "resolved"]
       ELSE LET d1 == setState(d0, STATES.LOADING)
                d2 == showPlaceholder(d1)
                d3 == NotifyState(d2, opts, STATES.LOADING)
                d4 == GuardedHook(d3, opts, "request")
            IN [dom |-> Logged(d4, "fetch"), started |-> TRUE,
                promise |-> "pending"]

\* ------------------------------------------------------------- views
\* The structure of the document: node kinds and item values, without the
\* identity of the nodes.
Strip(s) == [i \in 1..Len(s) |-> [k |-> s[i].k, v |-> s[i].v]]

View(d) ==
  [parent |-> Strip(d.parentKids),
   inner |-> IF Attached(d) THEN Strip(d.inner) ELSE <<>>]

NoView == [parent |-> <<>>, inner |-> <<>>]

\* ------------------------------------------------------------- load cycles
\* A call record: pc, the merged options of the call, the hook log so far,
\* the data-state the call found, and whether no other cycle was outstanding
\* at any time while this one was.  The record of the last settled cycle
\* adds its outcome, the data-state and the promise it ended with, the view
\* of the document it left, and whether it repeated the cycle before it
\* (both awaited, same payload, same options).
NoOutcome == [kind |-> "none", items |-> <<>>]

BlankCall ==
  [pc |-> "none", opts |-> NoOptions, log |-> <<>>, from |-> "none",
   alone |-> FALSE]

SettledCall == [BlankCall EXCEPT !.pc = "settled"]

NoLast ==
  [c |-> 0, outcome |-> NoOutcome, opts |-> NoOptions, log |-> <<>>,
   endState |-> "none", promise |-> "none", rendered |-> FALSE,
   view |-> NoView, from |-> "none", alone |-> FALSE, repeat |-> FALSE]

Outstanding == {c \in 1..MaxCycles : calls[c].pc = "fetching"}

WriteDom(d) ==
  /\ state' = d.state
  /\ inner' = d.inner
  /\ parentKids' = d.parentKids
  /\ replacedNodes' = d.replacedNodes
  /\ anchor' = d.anchor

\* One call of processFetchList(element, opts), up to its await.
processFetchList(opts) ==
  LET r == BeforeAwait(Dom(<<>>), opts)
  IN /\ WriteDom(r.dom)
     /\ IF r.started
          THEN /\ cycles < MaxCycles
               /\ Cardinality(Outstanding) < MaxOutstanding
               /\ cycles' = cycles + 1
               /\ calls' = [c \in 1..MaxCycles |->
                    IF c = cycles + 1
                      THEN [pc |-> "fetching", opts |-> opts, log |-> r.dom.log,
                            from |-> state, alone |-> Outstanding = {}]
                      ELSE [calls[c] EXCEPT !.alone = FALSE]]
          ELSE UNCHANGED <<cycles, calls>>
     /\ UNCHANGED last

\* createController(element, options)
createController(options) ==
  /\ controller' = "attached"
  /\ currentOptions' = options
  /\ CASE cfg.load = "auto" -> processFetchList(options) /\ UNCHANGED lazy
       [] cfg.load = "lazy" ->
            /\ lazy' = IF cfg.io THEN "observer" ELSE "timer"
            /\ UNCHANGED <<state, inner, parentKids, replacedNodes, anchor,
                           calls, cycles, last>>
       [] cfg.load = "manual" ->
            UNCHANGED <<state, inner, parentKids, replacedNodes, anchor,
                        calls, cycles, last, lazy>>

\* fetchList(element, options) creating a controller on every call
FetchListAlwaysCreates(options) ==
  /\ createController(options)
  /\ UNCHANGED <<cfg>>
  /\ UNCHANGED notList

\* fetchList(element, options)
FetchList(options) ==
  /\ IF controller = "attached"
       THEN /\ currentOptions' = IF DOMAIN options # {}
                                   THEN Merge(currentOptions, options)
                                   ELSE currentOptions
            /\ UNCHANGED <<state, inner, parentKids, replacedNodes, anchor,
                           calls, cycles, last, lazy, controller>>
       ELSE createController(options)
  /\ UNCHANGED <<cfg>>
  /\ UNCHANGED notList

\* controller.reload(overrides) storing the merged options
ReloadStoresOverrides(overrides) ==
  /\ controller # "none"
  /\ processFetchList(Merge(currentOptions, overrides))
  /\ currentOptions' = Merge(currentOptions, overrides)
  /\ UNCHANGED <<cfg, controller, lazy>>
  /\ UNCHANGED notList

\* controller.reload(overrides)
Reload(overrides) ==
  /\ controller # "none"
  /\ processFetchList(Merge(currentOptions, overrides))
  /\ UNCHANGED <<cfg, controller, currentOptions, lazy>>
  /\ UNCHANGED notList

\* controller.setOptions(newOptions)
SetOptions(newOptions) ==
  /\ controller # "none"
  /\ currentOptions' = Merge(currentOptions, newOptions)
  /\ UNCHANGED <<cfg, state, inner, parentKids, replacedNodes, anchor,
                 controller, lazy, calls, cycles, last>>
  /\ UNCHANGED notList

\* controller.destroy()
Destroy ==
  /\ controller # "none"
  /\ lazy' = IF lazy = "observer" THEN "none" ELSE lazy
  /\ state' = STATES.IDLE
  /\ controller' = "destroyed"
  /\ UNCHANGED <<cfg, inner, parentKids, replacedNodes, anchor,
                 currentOptions, calls, cycles, last>>
  /\ UNCHANGED notList

\* the IntersectionObserver callback with an intersecting entry
LazyIntersect ==
  /\ lazy = "observer"
  /\ processFetchList(currentOptions)
  /\ lazy' = "none"
  /\ UNCHANGED <<cfg, controller, currentOptions>>
  /\ UNCHANGED notList

\* the setTimeout(..., 100) fallback of the lazy mode
LazyTimeout ==
  /\ lazy = "timer"
  /\ processFetchList(currentOptions)
  /\ lazy' = "none"
  /\ UNCHANGED <<cfg, controller, currentOptions>>
  /\ UNCHANGED notList

\* the DOMContentLoaded listener of initFetchListAutoload
DomContentLoaded ==
  /\ controller = "none"
  /\ cfg.load = "auto"
  /\ createController(NoOptions)
  /\ UNCHANGED cfg
  /\ UNCHANGED notList

\* The fetch of cycle c settles with outcome o and processFetchList runs to
\* its end.
Settle(c, o) ==
  /\ calls[c].pc = "fetching"
  /\ LET cl == calls[c]
         r == AfterAwait(Dom(cl.log), c, o, cl.opts)
     IN /\ WriteDom(r.dom)
        /\ last' = [c |-> c, outcome |-> o, opts |-> cl.opts,
                    log |-> r.dom.log, endState |-> r.dom.state,
                    promise |-> r.promise, rendered |-> r.dom.rendered,
                    view |-> View(r.dom), from |-> cl.from,
                    alone |-> cl.alone,
                    repeat |-> /\ cl.alone
                               /\ last.alone
                               /\ o = last.outcome
                               /\ cl.opts = last.opts]
  /\ calls' = [calls EXCEPT ![c] = SettledCall]
  /\ UNCHANGED <<cfg, controller, currentOptions, lazy, cycles>>
  /\ UNCHANGED notList

\* ------------------------------------------------------------- fetch-json
\* The fetch-json element renders inside itself (no replace attribute); its
\* state templates are in the document, its item template is named by the
\* template attribute ("attr"), is a <template> child ("child") or is
\* missing ("none").
JDom(log) == [state |-> jstate, inner |-> jinner, log |-> log]

findStateTemplateJson(w) ==
  CASE w = "placeholder" -> jcfg.placeholder
    [] w = "error" -> jcfg.error

\* templating.findTemplate(templateAttr) or element.querySelector('template')
findTemplateJson(d) ==
  \/ jcfg.tpl = "attr"
  \/ jcfg.tpl = "child" /\ TplNode("item") \in Range(d.inner)

\* renderData: the rendered template, or the payload as text without one
renderData(d, c, opts) ==
  IF ~findTemplateJson(d)
    THEN [d EXCEPT !.inner = <<Node("text", 0, 0)>>]
    ELSE LET d1 == GuardedHook(d, opts, "beforeRender")
             d2 == [d1 EXCEPT !.inner = <<ItemNode(c, 0)>>]
         IN GuardedHook(d2, opts, "afterRender")

\* handleError: the error state, the error view and the onError hook
handleError(d, opts) ==
  LET d1 == setState(d, STATES.ERROR)
      d2 == IF findStateTemplateJson("error")
              THEN renderStateTemplate(d1, "error")
              ELSE d1
  IN GuardedHook(d2, opts, "onError")

\* The try block of processFetchJsonElement after the await.
TryBlockJson(d, c, o, opts) ==
  IF FetchThrows(o) THEN [dom |-> d, thrown |-> TRUE, returned |-> FALSE]
  ELSE LET d0 == GuardedHook(d, opts, "transform")
       IN IF o.kind = "null"
            THEN [dom |-> setState(d0, STATES.ERROR), thrown |-> FALSE,
                  returned |-> TRUE]
            ELSE LET d1 == renderData(d0, c, opts)
                     d2 == setState(d1, STATES.READY)
                 IN [dom |-> NotifyState(d2, opts, STATES.READY),
                     thrown |-> Throws(opts, "onStateChange"),
                     returned |-> TRUE]

\* processFetchJsonElement from the await on
AfterAwaitJson(d, c, o, opts) ==
  LET t == TryBlockJson(d, c, o, opts)
  IN IF t.thrown
       THEN [dom |-> NotifyState(handleError(t.dom, opts), opts, STATES.ERROR),
             promise |-> "rejected"]
       ELSE [dom |-> t.dom, promise |-> "resolved"]

\* processFetchJsonElement up to the await
BeforeAwaitJson(d, opts) ==
  IF d.state = STATES.LOADING
    THEN [dom |-> d, started |-> FALSE]
    ELSE LET d1 == setState(d, STATES.LOADING)
             d2 == IF findStateTemplateJson("placeholder")
                     THEN renderStateTemplate(d1, "placeholder")
                     ELSE d1
             d3 == NotifyState(d2, opts, STATES.LOADING)
             d4 == GuardedHook(d3, opts, "request")
         IN [dom |-> Logged(d4, "fetch"), started |-> TRUE]

JOutstanding == {c \in 1..MaxCycles : jcalls[c].pc = "fetching"}

JsonOutcomes ==
  {[kind |-> k, items |-> <<>>] : k \in Failures \cup {"null", "object"}}

\* One call of processFetchJsonElement(element, opts) on the element in data-state s.
processFetchJsonElement(s, opts) ==
  LET r == BeforeAwaitJson([JDom(<<>>) EXCEPT !.state = s], opts)
  IN /\ jstate' = r.dom.state
     /\ jinner' = r.dom.inner
     /\ IF r.started
          THEN /\ jcycles < MaxCycles
               /\ Cardinality(JOutstanding) < MaxOutstanding
               /\ jcycles' = jcycles + 1
               /\ jcalls' = [c \in 1..MaxCycles |->
                    IF c = jcycles + 1
                      THEN [pc |-> "fetching", opts |-> opts, log |-> r.dom.log,
                            from |-> s, alone |-> JOutstanding = {}]
                      ELSE [jcalls[c] EXCEPT !.alone = FALSE]]
          ELSE UNCHANGED <<jcycles, jcalls>>
     /\ UNCHANGED jlast

NotScheduled == [on |-> FALSE, opts |-> NoOptions]

\* fetchJson(...) over a scope that holds the element: manualTrigger tells
\* whether a scope or an options object was passed.
FetchJson(manualTrigger, options) ==
  /\ ~manualTrigger => options = NoOptions
  /\ LET s0 == IF jstate = "none" THEN STATES.IDLE ELSE jstate
     IN CASE jcfg.load = "manual" /\ ~manualTrigger ->
               /\ jstate' = s0
               /\ UNCHANGED <<jinner, jsched, jcalls, jcycles, jlast>>
          [] jcfg.load = "lazy" /\ ~manualTrigger ->
               /\ jstate' = STATES.IDLE
               /\ jsched' = IF jsched.on THEN jsched
                             ELSE [on |-> TRUE, opts |-> options]
               /\ UNCHANGED <<jinner, jcalls, jcycles, jlast>>
          [] OTHER ->
               /\ processFetchJsonElement(s0, options)
               /\ UNCHANGED jsched
  /\ UNCHANGED jcfg
  /\ UNCHANGED notJson

\* triggerLoad: the lazy element intersects the viewport, or the fallback
\* timer fires
TriggerLoad ==
  /\ jsched.on
  /\ jsched' = NotScheduled
  /\ processFetchJsonElement(jstate, jsched.opts)
  /\ UNCHANGED jcfg
  /\ UNCHANGED notJson

\* The fetch of cycle c settles with outcome o and processFetchJsonElement
\* runs to its end.
SettleJson(c, o) ==
  /\ jcalls[c].pc = "fetching"
  /\ LET cl == jcalls[c]
         r == AfterAwaitJson(JDom(cl.log), c, o, cl.opts)
     IN /\ jstate' = r.dom.state
        /\ jinner' = r.dom.inner
        /\ jlast' = [c |-> c, outcome |-> o, opts |-> cl.opts,
                     log |-> r.dom.log, endState |-> r.dom.state,
                     promise |-> r.promise]
  /\ jcalls' = [jcalls EXCEPT ![c] = SettledCall]
  /\ UNCHANGED <<jcfg, jsched, jcycles>>
  /\ UNCHANGED notJson

NoLastJson ==
  [c |-> 0, outcome |-> NoOutcome, opts |-> NoOptions, log |-> <<>>,
   endState |-> "none", promise |-> "none"]

JsonConfigs ==
  [placeholder : BOOLEAN, error : BOOLEAN, tpl : {"attr", "child", "none"},
   load : {"auto", "lazy", "manual"}]

InitJsonWith(configs) ==
  /\ jcfg \in configs
  /\ jstate = "none"
  /\ jinner = IF jcfg.tpl = "child" THEN <<TplNode("item")>> ELSE <<>>
  /\ jsched = NotScheduled
  /\ jcalls = [c \in 1..MaxCycles |-> BlankCall]
  /\ jcycles = 0
  /\ jlast = NoLastJson

\* the page of the fetch-list specifications holds one idle fetch-json
JsonIdle ==
  InitJsonWith({[placeholder |-> FALSE, error |-> FALSE, tpl |-> "attr",
                 load |-> "manual"]})

\* ------------------------------------------------------------- fetch-html
\* NumHtml sibling fetch-html elements (none nested in another), each with
\* an href attribute, in document order 1..NumHtml.
HtmlElems == 1..NumHtml

HtmlOutcomes == {"reject", "notok", "invalid", "text"}

\* options of a fetchHtml call: none, request() throwing, transform() throwing
HtmlOptionInputs ==
  {NoOptions, [h \in {"request"} |-> "throws"], [h \in {"transform"} |-> "throws"]}

HtmlState == [state |-> hstate, sched |-> hsched, fetch |-> hfetch,
              members |-> [e \in HtmlElems |-> "none"], threw |-> FALSE,
              issued |-> 0]

\* processFetchHtmlElement up to the fetch call: the guard on loading and
\* loaded, the loading state, buildRequestInit (request() is not guarded)
\* and the fetch.
processFetchHtmlElement(a, e, options, inBatch) ==
  IF a.state[e] \in {"loading", "loaded"}
    THEN [a EXCEPT !.members[e] = "skipped"]
    ELSE LET a1 == [a EXCEPT !.state[e] = "loading"]
         IN IF Throws(options, "request")
              THEN [a1 EXCEPT !.threw = TRUE]
              ELSE [a1 EXCEPT
                     !.fetch[e] = Append(@, [opts |-> options, member |-> inBatch]),
                     !.members[e] = "pending",
                     !.issued = @ + 1]

\* scheduleLazyLoad
scheduleLazyLoadHtml(a, e, options) ==
  IF a.sched[e].on THEN a
  ELSE [a EXCEPT !.sched[e] = [on |-> TRUE, opts |-> options]]

\* the body of nodes.forEach in fetchHtml for one node
VisitHtml(a, e, manualTrigger, options) ==
  LET a0 == IF a.state[e] = "none" THEN [a EXCEPT !.state[e] = "idle"] ELSE a
  IN CASE hcfg[e].load = "manual" /\ ~manualTrigger -> a0
       [] hcfg[e].load = "lazy" /\ ~manualTrigger ->
            LET a1 == [a0 EXCEPT !.state[e] = "idle", !.members[e] = "lazy"]
            IN scheduleLazyLoadHtml(a1, e, options)
       [] OTHER -> processFetchHtmlElement(a0, e, options, TRUE)

\* nodes.forEach: an exception thrown for one node ends the loop
RECURSIVE ScanHtml(_, _, _, _)
ScanHtml(nodes, a, manualTrigger, options) ==
  IF nodes = <<>> \/ a.threw THEN a
  ELSE ScanHtml(Tail(nodes), VisitHtml(a, Head(nodes), manualTrigger, options),
                manualTrigger, options)

\* collectFetchHtmlNodes: scope.querySelectorAll(FETCH_HTML_SELECTOR) finds
\* the fetch-html elements below the scope, in document order; scope 0 is
\* the document, scope e the fetch-html element e itself.
collectFetchHtmlNodes(scope) ==
  IF scope = 0
    THEN SelectSeq([e \in HtmlElems |-> e], LAMBDA e : hattached[e])
    ELSE <<>>

NoBatch ==
  [called |-> FALSE, scope |-> 0, manualTrigger |-> FALSE, threw |-> FALSE,
   members |-> [e \in HtmlElems |-> "none"]]

\* fetchHtml(scope, options) / fetchHtml(options) / fetchHtml()
FetchHtml(scope, manualTrigger, options) ==
  /\ scope # 0 => manualTrigger
  /\ ~manualTrigger => options = NoOptions
  /\ LET start == [HtmlState EXCEPT
                    !.fetch = [e \in HtmlElems |->
                                [i \in DOMAIN hfetch[e] |->
                                  [hfetch[e][i] EXCEPT !.member = FALSE]]]]
         r == ScanHtml(collectFetchHtmlNodes(scope), start, manualTrigger, options)
     IN /\ \A e \in HtmlElems : Len(r.fetch[e]) <= MaxOutstanding
        /\ hcycles + r.issued <= MaxCycles
        /\ hcycles' = hcycles + r.issued
        /\ hstate' = r.state
        /\ hsched' = r.sched
        /\ hfetch' = r.fetch
        /\ hbatch' = [called |-> TRUE, scope |-> scope,
                      manualTrigger |-> manualTrigger, threw |-> r.threw,
                      members |-> r.members]
  /\ UNCHANGED <<hcfg, hattached, hinner>>
  /\ UNCHANGED notHtml

\* triggerLoad of element e: it intersects the viewport, or the fallback
\* timer fires
TriggerLoadHtml(e) ==
  /\ hsched[e].on
  /\ hattached[e]
  /\ LET a == [HtmlState EXCEPT !.sched[e] = [on |-> FALSE, opts |-> NoOptions]]
         r == processFetchHtmlElement(a, e, hsched[e].opts, FALSE)
     IN /\ Len(r.fetch[e]) <= MaxOutstanding
        /\ hcycles + r.issued <= MaxCycles
        /\ hcycles' = hcycles + r.issued
        /\ hstate' = r.state
        /\ hsched' = r.sched
        /\ hfetch' = r.fetch
  /\ UNCHANGED <<hcfg, hattached, hinner, hbatch>>
  /\ UNCHANGED notHtml

\* The i-th outstanding fetch of element e settles with outcome o: the
\* then/catch chain of processFetchHtmlElement, handleSuccess, handleError.
SettleHtml(e, i, o) ==
  /\ i \in DOMAIN hfetch[e]
  /\ LET f == hfetch[e][i]
         ok == o = "text" /\ ~Throws(f.opts, "transform")
     IN /\ hstate' = [hstate EXCEPT ![e] = IF ok THEN "loaded" ELSE "error"]
        /\ hattached' = [hattached EXCEPT ![e] = @ /\ ~(ok /\ hcfg[e].replace)]
        /\ hinner' = [hinner EXCEPT ![e] = @ \/ (ok /\ ~hcfg[e].replace)]
        /\ hbatch' = IF f.member
                       THEN [hbatch EXCEPT !.members[e] =
                               IF ok THEN "loaded" ELSE "rejected"]
                       ELSE hbatch
  /\ hfetch' = [hfetch EXCEPT ![e] =
                  SubSeq(@, 1, i - 1) \o SubSeq(@, i + 1, Len(@))]
  /\ UNCHANGED <<hcfg, hsched, hcycles>>
  /\ UNCHANGED notHtml

\* Promise.all over the promises of the batch; a call that found nothing to
\* process resolves, a call interrupted by an exception returns no promise.
BatchPromise ==
  CASE ~hbatch.called -> "none"
    [] hbatch.threw -> "threw"
    [] \E e \in HtmlElems : hbatch.members[e] = "rejected" -> "rejected"
    [] \E e \in HtmlElems : hbatch.members[e] = "pending" -> "pending"
    [] OTHER -> "resolved"

HtmlConfigs == [load : {"auto", "lazy", "manual"}, replace : BOOLEAN]

InitHtmlWith(configs) ==
  /\ hcfg \in [HtmlElems -> configs]
  /\ hstate = [e \in HtmlElems |-> "none"]
  /\ hattached = [e \in HtmlElems |-> TRUE]
  /\ hinner = [e \in HtmlElems |-> FALSE]
  /\ hsched = [e \in HtmlElems |-> [on |-> FALSE, opts |-> NoOptions]]
  /\ hfetch = [e \in HtmlElems |-> <<>>]
  /\ hbatch = NoBatch
  /\ hcycles = 0

\* the page of the other specifications holds untouched fetch-html elements
HtmlIdle == InitHtmlWith({[load |-> "manual", replace |-> FALSE]})

\* ------------------------------------------------------------- inner-list
\* A fetch-list whose item template may hold an <inner-list key="orders">,
\* whose template may hold another one.  Each template is a <span> with the
\* text {root.id} {parent.id} {id} and, by its shape, an inner-list next to
\* the span inside a <div> wrapper ("wrapped"), next to the span as a
\* top-level element of the template ("top"), or none.  An instance is one
\* rendered item, named by the indices leading to it; its nodes are the
\* wrapper W, the span S and the inner-list L.  Comment anchors are not
\* elements and are left out.
Shapes == {"wrapped", "top", "none"}

N(inst, role) == [inst |-> inst, role |-> role]
Body == N(<<>>, "BODY")
FList == N(<<>>, "L")
NoNode == N(<<>>, "NONE")

tagName(n) ==
  CASE n.role = "L" /\ n.inst = <<>> -> "FETCH-LIST"
    [] n.role = "L" -> "INNER-LIST"
    [] n.role = "W" -> "DIV"
    [] n.role = "S" -> "SPAN"
    [] OTHER -> "BODY"

\* the payload: items with an id and an orders array, three levels deep;
\* item 1 has the orders 10 and 11
IdOf(path) ==
  CASE Len(path) = 1 -> path[1]
    [] Len(path) = 2 -> 10 * path[1] + path[2] - 1
    [] OTHER -> 100 * path[1] + 10 * (path[2] - 1) + path[3] - 1

RECURSIVE ItemAt(_, _)
ItemAt(path, n) ==
  [id |-> IdOf(path),
   orders |-> IF Len(path) < 3
                THEN [k \in 1..n[Len(path) + 1] |-> ItemAt(Append(path, k), n)]
                ELSE <<>>]

PayloadShapes == {n \in [1..3 -> 0..MaxItems] : n[1] >= 1}
Payload(n) == [i \in 1..n[1] |-> ItemAt(<<i>>, n)]

NoItem == [id |-> 0, orders |-> <<>>]
\* options.context.root of a fetchList call that passes a context
ContextRoot == [id |-> 99, orders |-> <<>>]

\* a descriptor of renderList, and the absent descriptor
Descriptor(data, ancestors, root) ==
  [some |-> TRUE, data |-> data, ancestors |-> ancestors, root |-> root]
NoDescriptor ==
  [some |-> FALSE, data |-> NoItem, ancestors |-> <<>>, root |-> NoItem]

NoText == [root |-> <<>>, parent |-> <<>>, id |-> <<>>]
ElementRec(parent, desc, text) ==
  [parent |-> parent, desc |-> desc, text |-> text, gov |-> NoDescriptor,
   seen |-> FALSE, kids |-> <<>>]

BaseDom ==
  [n \in {Body, FList} |->
     ElementRec(IF n = FList THEN Body ELSE NoNode, NoDescriptor, NoText)]

\* A JavaScript primitive is a record with the fields t (its type), s (the
\* tokens of a string) and n (a number, or 1 and 0 for true and false); an
\* object is a record of its properties.
JsString(str) == [t |-> "string", s |-> str, n |-> 0]
JsNumber(n) == [t |-> "number", s |-> <<>>, n |-> n]
JsBoolean(b) == [t |-> "boolean", s |-> <<>>, n |-> IF b THEN 1 ELSE 0]
JsNull == [t |-> "null", s |-> <<>>, n |-> 0]
JsUndefined == [t |-> "undefined", s |-> <<>>, n |-> 0]
IsPrimitive(v) == "t" \in DOMAIN v

\* resolveValue of templating.js: the value a placeholder path yields, or
\* undefined
Undefined == [ok |-> FALSE, v |-> 0]

RECURSIVE WalkPath(_, _)
WalkPath(current, parts) ==
  IF parts = <<>> THEN [ok |-> TRUE, v |-> current]
  ELSE IF IsPrimitive(current) THEN Undefined
  ELSE IF Head(parts) \in DOMAIN current
         THEN WalkPath(current[Head(parts)], Tail(parts))
         ELSE Undefined

RECURSIVE LeadingParents(_)
LeadingParents(tokens) ==
  IF tokens # <<>> /\ Head(tokens) = "parent"
    THEN 1 + LeadingParents(Tail(tokens))
    ELSE 0

\* mutant: every parent path starts at the nearest ancestor
resolveValueNearest(data, tokens, context) ==
  CASE Head(tokens) = "parent" ->
         LET k == LeadingParents(tokens)
         IN IF k > Len(context.ancestors) THEN Undefined
            ELSE WalkPath(context.ancestors[1], SubSeq(tokens, k + 1, Len(tokens)))
    [] Head(tokens) = "root" ->
         WalkPath(IF "root" \in DOMAIN context THEN context.root ELSE data,
                  Tail(tokens))
    [] Head(tokens) \in {"data", "this"} -> WalkPath(data, Tail(tokens))
    [] OTHER -> WalkPath(data, tokens)

resolveValue(data, tokens, context) ==
  CASE Head(tokens) = "parent" ->
         LET k == LeadingParents(tokens)
         IN IF k > Len(context.ancestors) THEN Undefined
            ELSE WalkPath(context.ancestors[k], SubSeq(tokens, k + 1, Len(tokens)))
    [] Head(tokens) = "root" ->
         WalkPath(IF "root" \in DOMAIN context THEN context.root ELSE data,
                  Tail(tokens))
    [] Head(tokens) \in {"data", "this"} -> WalkPath(data, Tail(tokens))
    [] OTHER -> WalkPath(data, tokens)

\* value != null ? String(value) : ''
Substituted(r) == IF r.ok THEN <<r.v>> ELSE <<>>

\* processTemplate on the span of a template
SpanText(desc) ==
  [root |-> Substituted(resolveValue(desc.data, <<"root", "id">>, desc)),
   parent |-> Substituted(resolveValue(desc.data, <<"parent", "id">>, desc)),
   id |-> Substituted(resolveValue(desc.data, <<"id">>, desc))]

\* renderList: one descriptor per item
renderListNoParentData(items, parentContext, extraRoot) ==
  [k \in 1..Len(items) |->
     Descriptor(items[k],
                IF parentContext.some THEN parentContext.ancestors ELSE <<>>,
                IF parentContext.some THEN parentContext.root
                ELSE IF extraRoot THEN ContextRoot ELSE items[k])]

renderList(items, parentContext, extraRoot) ==
  [k \in 1..Len(items) |->
     Descriptor(items[k],
                IF parentContext.some
                  THEN <<parentContext.data>> \o parentContext.ancestors
                  ELSE <<>>,
                IF parentContext.some THEN parentContext.root
                ELSE IF extraRoot THEN ContextRoot ELSE items[k])]

\* the top-level element nodes of an instance, in template order
TopNodes(inst, shape) ==
  CASE shape = "wrapped" -> <<N(inst, "W")>>
    [] shape = "top" -> <<N(inst, "S"), N(inst, "L")>>
    [] OTHER -> <<N(inst, "S")>>

\* the nodes of an instance placed under container; attachDescriptors puts
\* the descriptor on the top-level element nodes
InstanceNodes(inst, shape, container, desc) ==
  CASE shape = "wrapped" ->
         (N(inst, "W") :> ElementRec(container, desc, NoText))
           @@ (N(inst, "S") :> ElementRec(N(inst, "W"), NoDescriptor, SpanText(desc)))
           @@ (N(inst, "L") :> ElementRec(N(inst, "W"), NoDescriptor, NoText))
    [] shape = "top" ->
         (N(inst, "S") :> ElementRec(container, desc, SpanText(desc)))
           @@ (N(inst, "L") :> ElementRec(container, desc, NoText))
    [] OTHER ->
         (N(inst, "S") :> ElementRec(container, desc, SpanText(desc)))

RECURSIVE Flatten(_)
Flatten(ss) == IF ss = <<>> THEN <<>> ELSE Head(ss) \o Flatten(Tail(ss))

RECURSIVE MergeAll(_)
MergeAll(fs) == IF fs = <<>> THEN <<>> ELSE Head(fs) @@ MergeAll(Tail(fs))

\* element.replaceWith(fragment), or element.innerHTML = '' and
\* element.appendChild(fragment), for the list element of instance X
Splice(d, X, descs, shape, shouldReplace) ==
  LET L == N(X, "L")
      replaced == shouldReplace /\ d[L].parent # NoNode
      container == IF replaced THEN d[L].parent ELSE L
      fresh == MergeAll([k \in 1..Len(descs) |->
                 InstanceNodes(Append(X, k), shape, container, descs[k])])
      tops == Flatten([k \in 1..Len(descs) |-> TopNodes(Append(X, k), shape)])
      d1 == [d EXCEPT ![L].kids = tops,
                      ![L].parent = IF replaced THEN NoNode ELSE @]
  IN [n \in DOMAIN d1 \cup DOMAIN fresh |->
        IF n \in DOMAIN fresh THEN fresh[n] ELSE d1[n]]

\* whether node n lies below node c
RECURSIVE Below(_, _, _)
Below(d, n, c) ==
  LET parent == d[n].parent
  IN IF parent = NoNode THEN FALSE
     ELSE parent = c \/ Below(d, parent, c)

\* container.querySelectorAll('inner-list') over each of the containers,
\* for the lists of the instances X.1 .. X.count
innerListsBelow(d, containers, X, count) ==
  LET IsFound(L) == L \in DOMAIN d /\ \E c \in containers : Below(d, L, c)
  IN SelectSeq([k \in 1..count |-> N(Append(X, k), "L")], IsFound)

RECURSIVE findParentDescriptorFrom(_, _)
findParentDescriptorFrom(d, current) ==
  IF current = NoNode THEN NoDescriptor
  ELSE IF d[current].desc.some THEN d[current].desc
  ELSE IF tagName(current) \in {"FETCH-LIST", "INNER-LIST"} THEN NoDescriptor
  ELSE findParentDescriptorFrom(d, d[current].parent)

findParentDescriptor(d, L) == findParentDescriptorFrom(d, d[L].parent)

ShapeAt(level) ==
  CASE level = 1 -> icfg.t0
    [] level = 2 -> icfg.t1
    [] OTHER -> "none"

ReplaceOf(X) ==
  CASE Len(X) = 0 -> icfg.frep
    [] Len(X) = 1 -> icfg.rep1
    [] OTHER -> icfg.rep2

\* the containers processInnerLists is called on after a splice
ProcessedContainers(d, X) ==
  IF d[N(X, "L")].parent = NoNode /\ ReplaceOf(X)
    THEN {n \in Range(d[N(X, "L")].kids) : TRUE}
    ELSE {N(X, "L")}

RECURSIVE renderInnerList(_, _), processInnerLists(_, _)
\* renderInnerList for the inner-list of instance X
renderInnerList(d, X) ==
  LET L == N(X, "L")
      parentDescriptor == findParentDescriptor(d, L)
      d1 == [d EXCEPT ![L].gov = parentDescriptor, ![L].seen = TRUE]
      items == WalkPath(parentDescriptor.data, <<"orders">>).v
  IN IF ~parentDescriptor.some THEN d1
     ELSE IF Len(items) = 0 THEN [d1 EXCEPT ![L].kids = <<>>]
     ELSE LET descs == renderList(items, parentDescriptor, FALSE)
              d2 == Splice(d1, X, descs, ShapeAt(Len(X) + 1), ReplaceOf(X))
              d3 == IF icfg.variant = "jsimpled"
                      THEN [d2 EXCEPT ![L].desc = parentDescriptor]
                      ELSE d2
              d4 == processInnerLists(d3,
                      innerListsBelow(d3, ProcessedContainers(d3, X), X, Len(descs)))
          IN [d4 EXCEPT ![L].desc = parentDescriptor]

\* innerLists.forEach(renderInnerList)
processInnerLists(d, lists) ==
  IF lists = <<>> THEN d
  ELSE processInnerLists(renderInnerList(d, Head(lists).inst), Tail(lists))

\* renderItems of the fetch-list from the attachment of descriptors on
renderItemsNested(d, items) ==
  LET descs == renderList(items, NoDescriptor, icfg.ctxRoot)
      d2 == Splice(d, <<>>, descs, ShapeAt(1), ReplaceOf(<<>>))
  IN processInnerLists(d2,
       innerListsBelow(d2, ProcessedContainers(d2, <<>>), <<>>, Len(descs)))

\* A load cycle of the fetch-list renders the payload of shape n; the
\* content of the previous cycle is removed first.
RenderNested(n) ==
  /\ idom' = renderItemsNested(BaseDom, Payload(n))
  /\ UNCHANGED icfg
  /\ UNCHANGED notInner

InnerConfigs ==
  {c \in [variant : {"fetchtml", "jsimpled"}, frep : BOOLEAN, rep1 : BOOLEAN,
          rep2 : BOOLEAN, t0 : Shapes, t1 : Shapes, ctxRoot : BOOLEAN] :
     /\ c.variant = "jsimpled" => (~c.frep /\ ~c.rep1 /\ ~c.rep2)
     /\ c.t0 = "none" => (c.t1 = "none" /\ ~c.rep1)
     /\ c.t1 = "none" => ~c.rep2}

InitInnerWith(configs) ==
  /\ icfg \in configs
  /\ idom = BaseDom

\* the page of the other specifications has no nested list
InnerIdle ==
  InitInnerWith({[variant |-> "fetchtml", frep |-> FALSE, rep1 |-> FALSE,
                  rep2 |-> FALSE, t0 |-> "none", t1 |-> "none",
                  ctxRoot |-> FALSE]})

\* ------------------------------------------------------------- templating
\* A string is a sequence of tokens: punctuation characters, the blank, and
\* words, which contain neither.
RECURSIVE indexOf(_, _)
indexOf(str, c) ==
  IF str = <<>> THEN -1
  ELSE IF Head(str) = c THEN 0
  ELSE LET i == indexOf(Tail(str), c) IN IF i = -1 THEN -1 ELSE i + 1

RECURSIVE lastIndexOf(_, _)
lastIndexOf(str, c) ==
  IF str = <<>> THEN -1
  ELSE IF str[Len(str)] = c THEN Len(str) - 1
  ELSE lastIndexOf(SubSeq(str, 1, Len(str) - 1), c)

\* str.slice(from, to) with 0-based indices
slice(str, from, to) == SubSeq(str, from + 1, to)

RECURSIVE trim(_)
trim(str) ==
  IF str = <<>> THEN <<>>
  ELSE IF Head(str) = " " THEN trim(Tail(str))
  ELSE IF str[Len(str)] = " " THEN trim(SubSeq(str, 1, Len(str) - 1))
  ELSE str

RECURSIVE split(_, _)
split(str, c) ==
  LET i == indexOf(str, c)
  IN IF i = -1 THEN <<str>>
     ELSE <<slice(str, 0, i)>> \o split(slice(str, i + 1, Len(str)), c)

\* normalizeToken: a token that starts and ends with a quote character
\* loses its first and last character
QuoteChars == {"\"", "'"}

normalizeToken(token) ==
  IF Len(token) >= 2 /\ Head(token) \in QuoteChars
       /\ token[Len(token)] \in QuoteChars
    THEN slice(token, 1, Len(token) - 1)
    ELSE token

parsePlaceholder(placeholder) ==
  LET content == trim(slice(placeholder, 1, Len(placeholder) - 1))
      pipeIndex == indexOf(content, "|")
      key == trim(slice(content, 0, pipeIndex))
      formatterPart == trim(slice(content, pipeIndex + 1, Len(content)))
      parenIndex == indexOf(formatterPart, "(")
      formatterName == trim(slice(formatterPart, 0, parenIndex))
      argsString == trim(slice(formatterPart, parenIndex + 1,
                               lastIndexOf(formatterPart, ")")))
      parts == split(argsString, ",")
  IN IF pipeIndex = -1
       THEN [key |-> content, formatter |-> <<>>, args |-> <<>>]
     ELSE IF parenIndex = -1
       THEN [key |-> key, formatter |-> formatterPart, args |-> <<>>]
     ELSE [key |-> key, formatter |-> formatterName,
           args |-> IF argsString = <<>> THEN <<>>
                    ELSE [i \in 1..Len(parts) |-> trim(parts[i])]]

\* the lookup the map formatter builds from the pairs of one argument
RECURSIVE mapping(_)
mapping(pairs) ==
  IF pairs = <<>> THEN <<>>
  ELSE LET kv == split(pairs[Len(pairs)], "=")
           key == trim(kv[1])
           val == IF Len(kv) >= 2 THEN trim(kv[2]) ELSE <<>>
           rest == mapping(SubSeq(pairs, 1, Len(pairs) - 1))
       IN IF key # <<>> /\ val # <<>> THEN (key :> val) @@ rest ELSE rest

\* String(value)
Digits == <<"0", "1", "2", "3", "4", "5", "6", "7", "8", "9">>

String(value) ==
  CASE ~IsPrimitive(value) -> <<"[object Object]">>
    [] value.t = "string" -> value.s
    [] value.t = "number" -> <<Digits[value.n + 1]>>
    [] value.t = "boolean" -> IF value.n = 1 THEN <<"true">> ELSE <<"false">>
    [] value.t = "null" -> <<"null">>
    [] OTHER -> <<"undefined">>

UpperWord(w) ==
  CASE w = "ann" -> "ANN"
    [] w = "bob" -> "BOB"
    [] w = "true" -> "TRUE"
    [] w = "false" -> "FALSE"
    [] w = "null" -> "NULL"
    [] w = "undefined" -> "UNDEFINED"
    [] OTHER -> w

toUpperCase(str) == [i \in 1..Len(str) |-> UpperWord(str[i])]

\* the entry of the lookup for the value, or the value itself
mapLookup(m, value) ==
  IF String(value) \in DOMAIN m THEN JsString(m[String(value)]) ELSE value

\* str.toLowerCase() and the first letter in upper case, word by word
LowerWord(w) ==
  CASE w = "Ann" -> "ann"
    [] w = "N/A" -> "n/a"
    [] OTHER -> w

toLowerCase(str) == [i \in 1..Len(str) |-> LowerWord(str[i])]

CapitalWord(w) ==
  CASE w = "ann" -> "Ann"
    [] w = "bob" -> "Bob"
    [] w = "true" -> "True"
    [] w = "false" -> "False"
    [] w = "null" -> "Null"
    [] w = "undefined" -> "Undefined"
    [] OTHER -> w

\* str.charAt(0).toUpperCase() + str.slice(1)
capitalize(str) ==
  IF str = <<>> THEN <<>> ELSE <<CapitalWord(Head(str))>> \o Tail(str)

\* encodeURIComponent and the replacement of the escape formatter: letters
\* and digits are kept, the other characters are encoded
encodeURIComponent(str) ==
  [i \in 1..Len(str) |->
     CASE str[i] = " " -> "%20"
       [] str[i] = "&" -> "%26"
       [] str[i] = "<" -> "%3C"
       [] OTHER -> str[i]]

escapeHtml(str) ==
  [i \in 1..Len(str) |->
     CASE str[i] = "&" -> "&amp;"
       [] str[i] = "<" -> "&lt;"
       [] str[i] = ">" -> "&gt;"
       [] OTHER -> str[i]]

\* register('map', ...)
mapFormatter(value, args) ==
  IF args = <<>> THEN value
  ELSE mapLookup(mapping(split(args[1], ",")), value)

\* the formatter functions of the model: the built-in upper and map, a
\* custom one that appends "!" and a custom one that throws
FormatterFns == {"upper", "map", "suffix", "throws"}

Returned(v) == [threw |-> FALSE, v |-> v]
Thrown == [threw |-> TRUE, v |-> JsUndefined]

\* formatter(value, args, context)
callFormatter(fn, value, args) ==
  CASE fn = "upper" -> Returned(JsString(toUpperCase(String(value))))
    [] fn = "map" -> Returned(mapFormatter(value, args))
    [] fn = "suffix" -> Returned(JsString(String(value) \o <<"!">>))
    [] fn = "lower" -> Returned(JsString(toLowerCase(String(value))))
    [] fn = "capitalize" -> Returned(JsString(capitalize(String(value))))
    [] fn = "urlencode" -> Returned(JsString(encodeURIComponent(String(value))))
    [] fn = "escape" -> Returned(JsString(escapeHtml(String(value))))
    [] OTHER -> Thrown

\* the registry after the module is loaded (of the built-in formatters the
\* model has upper and map)
Builtins == (<<"upper">> :> "upper") @@ (<<"map">> :> "map")

\* the registry with the string formatters of the model
StringFormatters == {"upper", "lower", "capitalize", "urlencode", "escape"}
StringBuiltins == [n \in {<<f>> : f \in StringFormatters} |-> n[1]] @@ Builtins

\* mutant: a registered name keeps its first function
registerKeepsFirst(registry, name, fn) ==
  IF trim(name) = <<>> \/ fn \notin FormatterFns
    THEN [threw |-> TRUE, registry |-> registry]
    ELSE [threw |-> FALSE, registry |-> registry @@ (name :> fn)]

\* formatters.register: a TypeError for a blank name or a non-function
register(registry, name, fn) ==
  IF trim(name) = <<>> \/ fn \notin FormatterFns
    THEN [threw |-> TRUE, registry |-> registry]
    ELSE [threw |-> FALSE, registry |-> (name :> fn) @@ registry]

\* formatters.unregister
unregister(registry, name) ==
  [returned |-> name \in DOMAIN registry,
   registry |-> [m \in DOMAIN registry \ {name} |-> registry[m]]]

\* formatters.has
has(registry, name) == name \in DOMAIN registry

Diagnostic(level, name) == [level |-> level, name |-> name]

\* the call of the formatter inside try/catch: an exception is logged and
\* the value returned unchanged
caught(r, name, value) ==
  IF r.threw
    THEN [threw |-> FALSE, v |-> value, log |-> <<Diagnostic("error", name)>>]
    ELSE [threw |-> FALSE, v |-> r.v, log |-> <<>>]

\* the call of the formatter outside any try/catch
uncaught(r) == [threw |-> r.threw, v |-> r.v, log |-> <<>>]

\* formatters.apply without its try/catch
applyFormatterPropagates(registry, name, value, args) ==
  IF ~has(registry, name)
    THEN [threw |-> FALSE, v |-> value, log |-> <<Diagnostic("warn", name)>>]
    ELSE uncaught(callFormatter(registry[name], value, args))

\* formatters.apply
applyFormatter(registry, name, value, args) ==
  IF ~has(registry, name)
    THEN [threw |-> FALSE, v |-> value, log |-> <<Diagnostic("warn", name)>>]
    ELSE caught(callFormatter(registry[name], value, args), name, value)

\* key.match(/[^.[\]]+/g).map(normalizeToken): the segments of a path
PathSeparators == {".", "[", "]"}

RECURSIVE SegmentLength(_)
SegmentLength(str) ==
  IF str = <<>> \/ Head(str) \in PathSeparators THEN 0
  ELSE 1 + SegmentLength(Tail(str))

RECURSIVE pathTokens(_)
pathTokens(key) ==
  IF key = <<>> THEN <<>>
  ELSE IF Head(key) \in PathSeparators THEN pathTokens(Tail(key))
  ELSE LET n == SegmentLength(key)
           token == normalizeToken(SubSeq(key, 1, n))
       IN <<IF Len(token) = 1 THEN token[1] ELSE "?">>
            \o pathTokens(SubSeq(key, n + 1, Len(key)))

\* mutant: the path is resolved as resolvePath does, without reserved words
resolveKeyPlain(data, key, context) ==
  LET tokens == pathTokens(key)
  IN IF tokens = <<>> THEN Undefined ELSE WalkPath(data, tokens)

\* resolveValue from its key: no key or no segment is undefined
resolveKey(data, key, context) ==
  LET tokens == pathTokens(key)
  IN IF tokens = <<>> THEN Undefined ELSE resolveValue(data, tokens, context)

\* the context of a call without context
EmptyContext == [ancestors |-> <<>>]

\* value ? String(value) : ''
stringifyTruthy(value) ==
  IF IsPrimitive(value)
       /\ (value.t \in {"null", "undefined"} \/ (value.t = "string" /\ value.s = <<>>)
           \/ (value.t \in {"number", "boolean"} /\ value.n = 0))
    THEN <<>>
    ELSE String(value)

\* value != null ? String(value) : ''
stringify(value) ==
  IF IsPrimitive(value) /\ value.t \in {"null", "undefined"} THEN <<>>
  ELSE String(value)

\* let value = resolveValue(data, key, context)
resolved(r) == IF r.ok THEN r.v ELSE JsUndefined

\* if (formatter && formatters.has(formatter)) value = formatters.apply(...)
formatted(p, value, registry) ==
  IF p.formatter # <<>> /\ has(registry, p.formatter)
    THEN applyFormatter(registry, p.formatter, value, p.args)
    ELSE [threw |-> FALSE, v |-> value, log |-> <<>>]

\* return value != null ? String(value) : ''
substituted(applied) ==
  [threw |-> applied.threw,
   text |-> IF applied.threw THEN <<>> ELSE stringify(applied.v),
   log |-> applied.log]

\* the callback of template.replace from the parsed placeholder on
replaceParsed(p, data, context, registry) ==
  substituted(formatted(p, resolved(resolveKey(data, p.key, context)),
                        registry))

\* the replacement of one match of /\{[^}]+\}/g
replaceMatch(match, data, context, registry) ==
  replaceParsed(parsePlaceholder(match), data, context, registry)

\* a replaced match followed by the rest of the text
replacedThen(m, rest) ==
  IF m.threw \/ rest.threw
    THEN [threw |-> TRUE, text |-> <<>>,
          log |-> IF m.threw THEN m.log ELSE m.log \o rest.log]
    ELSE [threw |-> FALSE, text |-> m.text \o rest.text,
          log |-> m.log \o rest.log]

\* a character outside any match followed by the rest of the text
copiedThen(c, rest) ==
  [rest EXCEPT !.text = IF rest.threw THEN <<>> ELSE <<c>> \o @]

\* replacePlaceholders: every match in the text is replaced, left to right;
\* an exception of a replacement leaves the function
RECURSIVE replacePlaceholders(_, _, _, _)
replacePlaceholders(template, data, context, registry) ==
  IF template = <<>> THEN [threw |-> FALSE, text |-> <<>>, log |-> <<>>]
  ELSE LET close == IF Head(template) = "{"
                      THEN indexOf(Tail(template), "}")
                      ELSE -1
       IN IF close >= 1
            THEN replacedThen(
                   replaceMatch(slice(template, 0, close + 2), data, context,
                                registry),
                   replacePlaceholders(
                     slice(template, close + 2, Len(template)), data,
                     context, registry))
            ELSE copiedThen(
                   Head(template),
                   replacePlaceholders(Tail(template), data, context,
                                       registry))

\* the placeholders {status|map(k1=a1,k2=a2,...)} of the model
MapKeys == {"active", "inactive", "pending"}
MapValues == {"Active", "Inactive"}
MapPairs == [key : MapKeys, val : MapValues]
PairLists == UNION {[1..n -> MapPairs] : n \in 0..MaxPairs}
StatusValues == MapKeys \cup {"unknown"}

RECURSIVE JoinPairs(_, _)
JoinPairs(pairs, sep) ==
  IF pairs = <<>> THEN <<>>
  ELSE <<pairs[1].key, "=", pairs[1].val>>
         \o (IF Len(pairs) > 1 THEN sep ELSE <<>>)
         \o JoinPairs(Tail(pairs), sep)

MapPlaceholder(pairs, sep) ==
  <<"{", "status", "|", "map", "(">> \o JoinPairs(pairs, sep) \o <<")", "}">>

NotRendered == <<"<not rendered>">>

TemplateInputs ==
  [status : {<<v>> : v \in StatusValues}, pairs : PairLists,
   sep : {<<",">>, <<",", " ">>}]

\* the registry and the renderer before any call
NoRegistryCall == [op |-> "none", name |-> <<>>, threw |-> FALSE,
                   returned |-> FALSE, out |-> <<>>]
NoRegistryOp == [op |-> "none", fn |-> "none"]
RegisteredOp(fn) == [op |-> "register", fn |-> fn]
NoTemplate == [text |-> <<>>, attr |-> <<>>]
NoRun == [pc |-> "idle", array |-> TRUE, items |-> <<>>,
          template |-> NoTemplate, k |-> 0, nodes |-> <<>>,
          descriptors |-> <<>>, contexts |-> <<>>, log |-> <<>>,
          used |-> <<>>]

FormatterNames == {<<"upper">>, <<"map">>, <<"custom">>}

InitRegistryWith(registries) ==
  /\ treg \in registries
  /\ thist = [n \in FormatterNames |->
                IF n \in DOMAIN treg THEN RegisteredOp(treg[n])
                ELSE NoRegistryOp]
  /\ tres = NoRegistryCall
  /\ trun = NoRun

RegistryIdle == InitRegistryWith({Builtins})

InitTemplateWith(inputs) ==
  /\ tin \in inputs
  /\ tout = NotRendered
  /\ RegistryIdle

\* no template is rendered in the other specifications
TemplateIdle ==
  InitTemplateWith({[status |-> <<"unknown">>, pairs |-> <<>>, sep |-> <<",">>]})

\* replacePlaceholders is applied to the template and its data
RenderPlaceholder ==
  /\ tout = NotRendered
  /\ tout' = replacePlaceholders(MapPlaceholder(tin.pairs, tin.sep),
                                 [status |-> JsString(tin.status)],
                                 EmptyContext, treg).text
  /\ UNCHANGED <<tin, rvars>>
  /\ UNCHANGED notTemplate

\* the placeholders {x|default(arg1,arg2,...)} of the model; an argument is
\* a word with or without a quote character on either side
ArgShapes == [open : QuoteChars \cup {""}, word : {"N/A", "x"},
              close : QuoteChars \cup {""}]
ArgLists == UNION {[1..n -> ArgShapes] : n \in 1..MaxArgs}

ArgText(a) ==
  (IF a.open = "" THEN <<>> ELSE <<a.open>>) \o <<a.word>>
    \o (IF a.close = "" THEN <<>> ELSE <<a.close>>)

RECURSIVE JoinArgs(_)
JoinArgs(as) ==
  IF as = <<>> THEN <<>>
  ELSE ArgText(as[1]) \o (IF Len(as) > 1 THEN <<",", " ">> ELSE <<>>)
         \o JoinArgs(Tail(as))

ArgPlaceholder(as) ==
  <<"{", "x", "|", "default", "(">> \o JoinArgs(as) \o <<")", "}">>

\* parsePlaceholder is applied to the placeholder
ParseArguments ==
  /\ tout = NotRendered
  /\ tout' = parsePlaceholder(ArgPlaceholder(tin)).args
  /\ UNCHANGED <<tin, rvars>>
  /\ UNCHANGED notTemplate

\* the paths, items and contexts on which resolveValue is called: an item
\* with a field named parent, below depth ancestors, with or without a root
\* in the context; a path is a leading reserved word or none, k parent
\* segments and the remaining segments
PathRests == {<<>>, <<"x">>, <<"zip">>, <<"sub", "x">>}
ResolveInputs ==
  [lead : {"none", "data", "this", "root"}, k : 0..MaxParents,
   rest : PathRests, depth : 0..MaxDepth, hasRoot : BOOLEAN]

ResolveItem ==
  [id |-> "item", x |-> JsNumber(1), parent |-> JsString(<<"own">>),
   sub |-> [id |-> "item.sub", x |-> JsNumber(2)]]
AncestorIds == <<"anc1", "anc2", "anc3", "anc4">>
Ancestor(j) ==
  [id |-> AncestorIds[j], x |-> JsNumber(2 + j),
   sub |-> [id |-> "anc.sub", x |-> JsNumber(5 + j)]]
ResolveRoot == [id |-> "root", x |-> JsNumber(9)]

ResolveContext(in) ==
  IF in.hasRoot
    THEN [ancestors |-> [j \in 1..in.depth |-> Ancestor(j)], root |-> ResolveRoot]
    ELSE [ancestors |-> [j \in 1..in.depth |-> Ancestor(j)]]

RECURSIVE JoinPath(_)
JoinPath(segments) ==
  IF segments = <<>> THEN <<>>
  ELSE <<Head(segments)>> \o (IF Len(segments) > 1 THEN <<".">> ELSE <<>>)
         \o JoinPath(Tail(segments))

PathSegments(in) ==
  (IF in.lead = "none" THEN <<>> ELSE <<in.lead>>)
    \o [j \in 1..in.k |-> "parent"] \o in.rest

\* what a resolved value is seen to be: undefined, a primitive with its
\* type and text, or an object with its id
Observed(r) ==
  IF ~r.ok THEN <<"undefined">>
  ELSE IF IsPrimitive(r.v) THEN <<r.v.t>> \o String(r.v)
  ELSE <<"object", r.v.id>>

\* resolveValue is applied to the path
ResolvePath ==
  /\ tout = NotRendered
  /\ tout' = Observed(resolveKey(ResolveItem, JoinPath(PathSegments(tin)),
                                 ResolveContext(tin)))
  /\ UNCHANGED <<tin, rvars>>
  /\ UNCHANGED notTemplate

\* the items and templates of the renderList calls of the model; a template
\* is an element with one text node and one attribute
ItemAnn == [name |-> JsString(<<"ann">>), count |-> JsNumber(0),
            flag |-> JsBoolean(FALSE), nil |-> JsNull]
ItemBob == [name |-> JsString(<<"bob">>), count |-> JsNumber(5),
            flag |-> JsBoolean(TRUE), nil |-> JsNull]
RenderItems == {ItemAnn, ItemBob}

TemplateFormatted ==
  [text |-> <<"{", "name", "|", "custom", "}", " ", "{", "count", "}">>,
   attr |-> <<"{", "name", "|", "upper", "}">>]
TemplatePlain ==
  [text |-> <<"{", "count", "}", "-", "{", "flag", "}", "-",
              "{", "nil", "}", "-", "{", "zip", "}">>,
   attr |-> <<"id-", "{", "count", "}", "{", "count", "}">>]
TemplateEdges ==
  [text |-> <<"{", " ", "name", " ", "}", "{", "}", "{">>,
   attr |-> <<"{", "data", ".", "name", "}", "{", "this", ".", "count", "}">>]
RenderTemplates == {TemplateFormatted, TemplatePlain, TemplateEdges}

RenderInputs ==
  [array : {TRUE}, items : UNION {[1..n -> RenderItems] : n \in 0..MaxItems}]
    \cup {[array |-> FALSE, items |-> <<>>]}

\* the beforeRender option of a call: absent, a function that returns, one
\* that throws, or one that registers or unregisters a formatter
BeforeRenderHooks ==
  {[kind |-> k, name |-> <<>>, fn |-> "none"] : k \in {"none", "returns", "throws"}}
    \cup {[kind |-> "register", name |-> <<"custom">>, fn |-> f] :
             f \in {"suffix", "throws"}}
    \cup {[kind |-> "register", name |-> <<"upper">>, fn |-> "suffix"]}
    \cup {[kind |-> "unregister", name |-> n, fn |-> "none"] :
             n \in {<<"custom">>, <<"upper">>}}

\* the context renderList builds for item i of a top-level list
ItemContext(items, i) ==
  [index |-> i - 1, first |-> i = 1, last |-> i = Len(items),
   ancestors |-> <<>>, root |-> items[i], depth |-> 0, data |-> items[i]]

\* the node after its text nodes and its attributes were processed
processedNode(text, attr) ==
  [threw |-> text.threw \/ attr.threw,
   node |-> [text |-> text.text, attr |-> attr.text],
   log |-> IF text.threw THEN text.log ELSE text.log \o attr.log]

\* processTemplate: the text nodes, then the attributes
processTemplate(template, data, context, registry) ==
  processedNode(replacePlaceholders(template.text, data, context, registry),
                replacePlaceholders(template.attr, data, context, registry))

\* the registry and its records after a call of register or unregister
RegistryAfter(reg, hist, op, name, fn) ==
  IF op = "register"
    THEN LET r == register(reg, name, fn)
         IN [registry |-> r.registry,
             hist |-> IF r.threw \/ name \notin DOMAIN hist THEN hist
                      ELSE [hist EXCEPT ![name] = RegisteredOp(fn)],
             res |-> [op |-> "register", name |-> name, threw |-> r.threw,
                      returned |-> FALSE, out |-> <<>>],
             threw |-> r.threw]
    ELSE LET r == unregister(reg, name)
         IN [registry |-> r.registry,
             hist |-> IF name \notin DOMAIN hist THEN hist
                      ELSE [hist EXCEPT ![name] = [op |-> "unregister", fn |-> "none"]],
             res |-> [op |-> "unregister", name |-> name, threw |-> FALSE,
                      returned |-> r.returned, out |-> <<>>],
             threw |-> FALSE]

\* what the beforeRender function of the options does when called
hookEffect(hook, reg, hist, res) ==
  LET same == [threw |-> FALSE, registry |-> reg, hist |-> hist, res |-> res,
               log |-> <<>>]
  IN CASE hook.kind \in {"none", "returns"} -> same
       [] hook.kind = "throws" -> [same EXCEPT !.threw = TRUE]
       [] OTHER ->
            LET r == RegistryAfter(reg, hist, hook.kind, hook.name, hook.fn)
            IN [threw |-> r.threw, registry |-> r.registry, hist |-> r.hist,
                res |-> r.res, log |-> <<>>]

\* the call of options.beforeRender without try/catch
callBeforeRenderUnguarded(hook, reg, hist, res) ==
  hookEffect(hook, reg, hist, res)

\* the call of options.beforeRender inside try/catch
callBeforeRender(hook, reg, hist, res) ==
  LET r == hookEffect(hook, reg, hist, res)
  IN IF r.threw
       THEN [r EXCEPT !.threw = FALSE,
                      !.log = <<Diagnostic("error", <<"beforeRender">>)>>]
       ELSE r

\* the end of one iteration of items.forEach: rendered is the processed
\* clone, h the effect of the hook when it is called and skipped the effect
\* when it is not; an exception leaves the loop, otherwise the clone is
\* appended
renderedItem(run, reg, rendered, h, skipped) ==
  LET i == run.k + 1
      effect == IF rendered.threw THEN skipped ELSE h
  IN [run |-> IF rendered.threw \/ effect.threw
                THEN [run EXCEPT !.pc = "threw", !.log = @ \o rendered.log]
                ELSE [run EXCEPT
                        !.k = i,
                        !.pc = IF i = Len(run.items) THEN "done" ELSE @,
                        !.nodes = Append(@, rendered.node),
                        !.descriptors = Append(@, [data |-> run.items[i]]),
                        !.contexts = Append(@, ItemContext(run.items, i)),
                        !.log = @ \o rendered.log \o effect.log,
                        !.used = Append(@, reg)],
      registry |-> effect.registry, hist |-> effect.hist, res |-> effect.res]

\* one iteration of items.forEach with the hook called before the template
\* is processed
renderItemHookFirst(run, hook, reg, hist, res) ==
  renderedItem(run, reg,
               processTemplate(run.template, run.items[run.k + 1],
                               ItemContext(run.items, run.k + 1),
                               callBeforeRender(hook, reg, hist, res).registry),
               callBeforeRender(hook, reg, hist, res),
               callBeforeRender(hook, reg, hist, res))

\* one iteration of items.forEach in renderList
renderItem(run, hook, reg, hist, res) ==
  renderedItem(run, reg,
               processTemplate(run.template, run.items[run.k + 1],
                               ItemContext(run.items, run.k + 1), reg),
               callBeforeRender(hook, reg, hist, res),
               [threw |-> FALSE, registry |-> reg, hist |-> hist,
                res |-> res, log |-> <<>>])

\* renderList is called: a non-array or an empty array returns at once
RenderListStart(input, template) ==
  /\ trun.pc = "idle"
  /\ trun' = [NoRun EXCEPT
                !.pc = IF input.array /\ input.items # <<>>
                         THEN "rendering" ELSE "done",
                !.array = input.array,
                !.items = input.items,
                !.template = template]
  /\ UNCHANGED <<tvars, treg, thist, tres>>
  /\ UNCHANGED notTemplate

\* the next item of the list is rendered and the hook is called for it
RenderListItem(hook) ==
  /\ trun.pc = "rendering"
  /\ \E r \in {renderItem(trun, hook, treg, thist, tres)} :
        /\ trun' = r.run
        /\ treg' = r.registry
        /\ thist' = r.hist
        /\ tres' = r.res
  /\ UNCHANGED tvars
  /\ UNCHANGED notTemplate

\* calls of the registry from the page's scripts
RegistryNames == FormatterNames \cup {<<>>, <<" ">>}

Register(name, fn) ==
  /\ trun.pc = "idle"
  /\ LET r == RegistryAfter(treg, thist, "register", name, fn)
     IN /\ treg' = r.registry
        /\ thist' = r.hist
        /\ tres' = r.res
  /\ UNCHANGED <<tvars, trun>>
  /\ UNCHANGED notTemplate

Unregister(name) ==
  /\ trun.pc = "idle"
  /\ LET r == RegistryAfter(treg, thist, "unregister", name, "none")
     IN /\ treg' = r.registry
        /\ thist' = r.hist
        /\ tres' = r.res
  /\ UNCHANGED <<tvars, trun>>
  /\ UNCHANGED notTemplate

\* formatters.apply(name, 'ann', [])
Apply(name) ==
  /\ trun.pc = "idle"
  /\ tres' = [op |-> "apply", name |-> name, threw |-> FALSE,
              returned |-> FALSE,
              out |-> String(applyFormatter(treg, name, JsString(<<"ann">>),
                                            <<>>).v)]
  /\ UNCHANGED <<tvars, treg, thist, trun>>
  /\ UNCHANGED notTemplate

\* the placeholders {path|formatter} of the model for a string formatter:
\* name is a string, count a number, nil is null and zip is missing
FormattedPaths == {"name", "count", "nil", "zip"}
FormattedInputs ==
  [path : FormattedPaths, formatter : StringFormatters, item : RenderItems,
   lead : {<<>>, <<"id-">>}]

FormattedPlaceholder(in) ==
  in.lead \o <<"{", in.path, "|", in.formatter, "}">>

\* replacePlaceholders is applied to the text and the item
RenderFormatted ==
  /\ tout = NotRendered
  /\ tout' = replacePlaceholders(FormattedPlaceholder(tin), tin.item,
                                 EmptyContext, treg).text
  /\ UNCHANGED <<tin, rvars>>
  /\ UNCHANGED notTemplate

RenderRegistries ==
  {Builtins, (<<"custom">> :> "suffix") @@ Builtins,
   (<<"custom">> :> "throws") @@ Builtins}

\* ------------------------------------------------------------- fetch-list
AllConfigs ==
  {c \in [replace : BOOLEAN, tpl : {"absent", "notfound", "found"},
          placeholder : BOOLEAN, empty : BOOLEAN, error : BOOLEAN,
          nested : BOOLEAN, load : {"auto", "lazy", "manual"}, io : BOOLEAN] :
     /\ c.nested => (c.tpl = "found" \/ c.placeholder \/ c.empty \/ c.error)
     /\ c.load # "lazy" => c.io}

\* Every template layout, on an element with load="manual".
Configs == {c \in AllConfigs : c.load = "manual"}

\* Every load mode, on an element that renders inside itself from an item
\* template in the document and has no state templates.
LoadConfigs ==
  {c \in AllConfigs : /\ c.tpl = "found" /\ ~c.nested /\ ~c.replace
                      /\ ~c.placeholder /\ ~c.empty /\ ~c.error}

\* The templates written inside the element, in document order.
NestedTemplates(c) ==
  (IF c.tpl = "found" THEN <<TplNode("item")>> ELSE <<>>)
    \o (IF c.placeholder THEN <<TplNode("placeholder")>> ELSE <<>>)
    \o (IF c.empty THEN <<TplNode("empty")>> ELSE <<>>)
    \o (IF c.error THEN <<TplNode("error")>> ELSE <<>>)

InitWith(configs) ==
  /\ cfg \in configs
  /\ state = "none"
  /\ inner = IF cfg.nested THEN NestedTemplates(cfg) ELSE <<>>
  /\ parentKids = <<ElNode>>
  /\ replacedNodes = <<>>
  /\ anchor = FALSE
  /\ controller = "none"
  /\ currentOptions = NoOptions
  /\ lazy = "none"
  /\ calls = [c \in 1..MaxCycles |-> BlankCall]
  /\ cycles = 0
  /\ last = NoLast

Init == InitWith(Configs) /\ JsonIdle /\ HtmlIdle /\ InnerIdle /\ TemplateIdle

\* Every template layout: the controller is created with every hook
\* provided, fetchList(element, hooks), and reloaded with reload().
Next ==
  \/ FetchList(AllHooks)
  \/ Reload(NoOptions)
  \/ Destroy
  \/ \E c \in 1..MaxCycles, o \in Outcomes : Settle(c, o)

Spec == Init /\ [][Next]_vars

\* Every load mode and every way of storing options in the controller.
InitLoad == InitWith(LoadConfigs) /\ JsonIdle /\ HtmlIdle /\ InnerIdle /\ TemplateIdle

NextLoad ==
  \/ \E options \in OptionInputs : FetchList(options)
  \/ \E overrides \in OptionInputs : Reload(overrides)
  \/ \E newOptions \in OptionInputs : SetOptions(newOptions)
  \/ Destroy
  \/ LazyIntersect
  \/ LazyTimeout
  \/ DomContentLoaded
  \/ \E c \in 1..MaxCycles, o \in Outcomes : Settle(c, o)

SpecLoad == InitLoad /\ [][NextLoad]_vars

\* The page left to itself: the browser fires DOMContentLoaded, a lazy
\* element that is observed enters the viewport, timers fire and fetches
\* settle; fetchList(element), reload() and destroy() may be called but
\* need not be.
NextLazy ==
  \/ FetchList(NoOptions)
  \/ Reload(NoOptions)
  \/ Destroy
  \/ LazyIntersect
  \/ LazyTimeout
  \/ DomContentLoaded
  \/ \E c \in 1..MaxCycles, o \in Outcomes : Settle(c, o)

SpecLazy ==
  /\ InitLoad
  /\ [][NextLazy]_vars
  /\ WF_vars(DomContentLoaded)
  /\ WF_vars(LazyIntersect)
  /\ WF_vars(LazyTimeout)
  /\ WF_vars(\E c \in 1..MaxCycles, o \in Outcomes : Settle(c, o))

\* Stored options and overrides that name different hooks: the element
\* renders inside itself from a template of the document, its controller is
\* created by fetchList(element, options), its options are changed with
\* setOptions() and it is reloaded with and without overrides.
StoredOptionInputs == {NoOptions, [h \in {"onStateChange", "onError"} |-> "ok"]}
NewOptionInputs == StoredOptionInputs \cup {[h \in {"afterRender"} |-> "ok"]}
OverrideInputs ==
  {NoOptions, [h \in {"onStateChange"} |-> "throws"],
   [h \in {"beforeRender"} |-> "ok"]}

InitReload ==
  /\ InitWith({c \in LoadConfigs : c.load \in {"auto", "manual"}})
  /\ JsonIdle
  /\ HtmlIdle
  /\ InnerIdle
  /\ TemplateIdle

NextReload ==
  \/ \E options \in StoredOptionInputs : FetchList(options)
  \/ \E overrides \in OverrideInputs : Reload(overrides)
  \/ \E newOptions \in NewOptionInputs : SetOptions(newOptions)
  \/ \E c \in 1..MaxCycles, o \in Outcomes : Settle(c, o)

SpecReload == InitReload /\ [][NextReload]_vars

\* the page of the fetch-json specification holds one untouched fetch-list
ListIdle ==
  InitWith({c \in Configs : c.tpl = "found" /\ ~c.nested /\ ~c.replace
                            /\ ~c.placeholder /\ ~c.empty /\ ~c.error})

InitJson ==
  /\ InitJsonWith(JsonConfigs)
  /\ ListIdle
  /\ HtmlIdle
  /\ InnerIdle
  /\ TemplateIdle

InitHtml ==
  /\ InitHtmlWith(HtmlConfigs)
  /\ ListIdle
  /\ JsonIdle
  /\ InnerIdle
  /\ TemplateIdle

NextHtml ==
  \/ \E scope \in {0} \cup HtmlElems, manualTrigger \in BOOLEAN,
        options \in HtmlOptionInputs : FetchHtml(scope, manualTrigger, options)
  \/ \E e \in HtmlElems : TriggerLoadHtml(e)
  \/ \E e \in HtmlElems, i \in 1..MaxOutstanding, o \in HtmlOutcomes :
       SettleHtml(e, i, o)

SpecHtml == InitHtml /\ [][NextHtml]_vars

\* The fetch-html page with every issued fetch settling eventually.
SpecHtmlFair ==
  /\ InitHtml
  /\ [][NextHtml]_vars
  /\ \A e \in HtmlElems :
       WF_vars(\E i \in 1..MaxOutstanding, o \in HtmlOutcomes : SettleHtml(e, i, o))

InitInner ==
  /\ InitInnerWith(InnerConfigs)
  /\ ListIdle
  /\ JsonIdle
  /\ HtmlIdle
  /\ TemplateIdle

NextInner == \E n \in PayloadShapes : RenderNested(n)

SpecInner == InitInner /\ [][NextInner]_vars

InitParse ==
  /\ InitTemplateWith(ArgLists)
  /\ ListIdle
  /\ JsonIdle
  /\ HtmlIdle
  /\ InnerIdle

NextParse == ParseArguments

SpecParse == InitParse /\ [][NextParse]_vars

InitRegistry ==
  /\ InitTemplateWith({[status |-> <<"unknown">>, pairs |-> <<>>, sep |-> <<",">>]})
  /\ ListIdle
  /\ JsonIdle
  /\ HtmlIdle
  /\ InnerIdle

NextRegistry ==
  \/ \E name \in RegistryNames, fn \in FormatterFns \cup {"notfunction"} :
       Register(name, fn)
  \/ \E name \in RegistryNames : Unregister(name)
  \/ \E name \in FormatterNames : Apply(name)

SpecRegistry == InitRegistry /\ [][NextRegistry]_vars

InitResolve ==
  /\ InitTemplateWith(ResolveInputs)
  /\ ListIdle
  /\ JsonIdle
  /\ HtmlIdle
  /\ InnerIdle

NextResolve == ResolvePath

SpecResolve == InitResolve /\ [][NextResolve]_vars

InitRender ==
  /\ InitRegistryWith(RenderRegistries)
  /\ tin = [status |-> <<"unknown">>, pairs |-> <<>>, sep |-> <<",">>]
  /\ tout = NotRendered
  /\ ListIdle
  /\ JsonIdle
  /\ HtmlIdle
  /\ InnerIdle

NextRender ==
  \/ \E input \in RenderInputs, template \in RenderTemplates :
       RenderListStart(input, template)
  \/ \E hook \in BeforeRenderHooks : RenderListItem(hook)

SpecRender == InitRender /\ [][NextRender]_vars

InitFormatted ==
  /\ tin \in FormattedInputs
  /\ tout = NotRendered
  /\ InitRegistryWith({StringBuiltins})
  /\ ListIdle
  /\ JsonIdle
  /\ HtmlIdle
  /\ InnerIdle

NextFormatted == RenderFormatted

SpecFormatted == InitFormatted /\ [][NextFormatted]_vars

InitTemplate ==
  /\ InitTemplateWith(TemplateInputs)
  /\ ListIdle
  /\ JsonIdle
  /\ HtmlIdle
  /\ InnerIdle

NextTemplate == RenderPlaceholder

SpecTemplate == InitTemplate /\ [][NextTemplate]_vars

NextJson ==
  \/ \E manualTrigger \in BOOLEAN, options \in OptionInputs :
       FetchJson(manualTrigger, options)
  \/ TriggerLoad
  \/ \E c \in 1..MaxCycles, o \in JsonOutcomes : SettleJson(c, o)

SpecJson == InitJson /\ [][NextJson]_vars

TypeOK ==
  /\ state \in {"none", "idle", "loading", "ready", "empty", "error"}
  /\ cycles \in 0..MaxCycles
  /\ controller \in {"none", "attached", "destroyed"}
  /\ lazy \in {"none", "observer", "timer"}
  /\ DOMAIN currentOptions \subseteq HookNames
  /\ \A h \in DOMAIN currentOptions : currentOptions[h] \in {"ok", "throws"}
  /\ \A c \in 1..MaxCycles : calls[c].pc \in {"none", "fetching", "settled"}

\* ------------------------------------------------------------- properties
\* A step in which a load cycle settles, and one in which a cycle starts.
SettleStep == last'.c # last.c
LoadStep == cycles' = cycles + 1

IsPrefix(p, s) == Len(p) <= Len(s) /\ SubSeq(s, 1, Len(p)) = p

\* C1: at most one fetch issued for the element is outstanding at any time.
C1_AtMostOneOutstanding == Cardinality(Outstanding) <= 1

\* C2 as stated: every change of data-state follows idle->loading,
\* loading->ready|empty|error or ready|empty|error->loading (the absent
\* attribute of a fresh element counts as idle).
OriginalEdges ==
  {<<"none", "loading">>, <<"idle", "loading">>, <<"loading", "ready">>,
   <<"loading", "empty">>, <<"loading", "error">>, <<"ready", "loading">>,
   <<"empty", "loading">>, <<"error", "loading">>}

C2_OnlyListedEdges == [][state' # state => <<state, state'>> \in OriginalEdges]_vars

\* C2 amended: data-state changes only to loading (from any other state)
\* when a load starts, to idle on destroy(), and - when a load cycle
\* settles, from whatever state the element is then in - to ready (payload
\* a non-empty array), to empty (no items) or to error (fetch failed,
\* response invalid, or the state listener threw).
C2_Edges ==
  [][state' # state =>
      \/ /\ state' = "loading"
         /\ LoadStep
      \/ /\ state' = "idle"
         /\ controller' = "destroyed"
         /\ UNCHANGED <<cycles, calls, last>>
      \/ /\ SettleStep
         /\ \/ /\ state' = "ready"
               /\ last'.outcome.kind = "array"
               /\ Len(last'.outcome.items) > 0
            \/ /\ state' = "empty"
               /\ last'.outcome.kind \in {"null", "array"}
               /\ Len(ItemsOf(last'.outcome)) = 0
            \/ /\ state' = "error"
               /\ \/ last'.outcome.kind \in Failures
                  \/ Throws(last'.opts, "onStateChange")]_vars

\* destroy() took a ready element back to idle
C2_Witness ==
  /\ state = "idle"
  /\ controller = "destroyed"
  /\ last.endState = "ready"
  /\ Outstanding = {}

\* C3: a rejected fetch, a non-ok status and a failing json() put the
\* element in error, call onError when it is provided, and reject the
\* promise of the call.
C3_FetchErrorSurfaces ==
  [][(SettleStep /\ last'.outcome.kind \in Failures) =>
      /\ state' = "error"
      /\ last'.promise = "rejected"
      /\ Provided(last'.opts, "onError") <=> (Ev("onError", 0) \in Range(last'.log))]_vars

C3_Witness ==
  /\ last.outcome.kind = "notok"
  /\ Provided(last.opts, "onError")
  /\ Ev("onError", 0) \in Range(last.log)
  /\ last.promise = "rejected"
  /\ state = "error"

\* C4: a throwing hook changes nothing: the cycle ends with the data-state,
\* the content and the promise outcome it has when the hook returns.
Calm(opts) == [h \in DOMAIN opts |-> "ok"]

C4_ThrowingHookHarmless ==
  [][SettleStep =>
      LET c == last'.c
          r == AfterAwait(Dom(calls[c].log), c, last'.outcome, Calm(calls[c].opts))
      IN /\ state' = r.dom.state
         /\ inner' = r.dom.inner
         /\ parentKids' = r.dom.parentKids
         /\ last'.promise = r.promise]_vars

\* C5: a cycle of an element whose template attribute is missing or names no
\* template never ends in ready.
C5_MissingTemplateNeverReady ==
  (last.c # 0 /\ cfg.tpl \in {"absent", "notfound"}) => last.endState # "ready"

\* C6: an awaited reload() that repeats the awaited reload() before it (same
\* payload, same options) leaves the document structurally equal to what
\* that reload left, inside the element and in replace mode.
C6_ReloadIdempotent ==
  [][(SettleStep /\ last'.repeat /\ last'.outcome.kind \notin Failures) =>
      last'.view = last.view]_vars

\* C7: in a cycle that renders items the hooks run in the order
\* onStateChange(loading), fetch, beforeRender, beforeItemRender for items
\* 0..n-1, afterRender, onStateChange(ready); the placeholder and
\* onStateChange(loading) are produced in the triggering call, before the
\* fetch is issued.
OrderedEvents(n) ==
  <<Ev("state:loading", 0), Ev("fetch", 0), Ev("beforeRender", 0)>>
    \o [i \in 1..n |-> Ev("beforeItemRender", i - 1)]
    \o <<Ev("afterRender", 0), Ev("state:ready", 0)>>

HookOf(e) ==
  CASE e.e \in {"state:loading", "state:ready"} -> "onStateChange"
    [] e.e = "fetch" -> "fetch"
    [] OTHER -> e.e

\* the events of the order that the options of the call can produce
ExpectedEvents(n, opts) ==
  LET Can(e) == HookOf(e) = "fetch" \/ Provided(opts, HookOf(e))
  IN SelectSeq(OrderedEvents(n), Can)

\* the part of the order that precedes the await
EventsBeforeAwait(opts) ==
  LET Can(e) == HookOf(e) = "fetch" \/ Provided(opts, HookOf(e))
  IN SelectSeq(<<Ev("state:loading", 0), Ev("fetch", 0)>>, Can)

ClaimedEvents(log) ==
  LET Named(e) == e.e \notin {"request", "transform"}
  IN SelectSeq(log, Named)

C7_HookOrder ==
  [][/\ LoadStep =>
         LET cl == calls'[cycles']
         IN /\ state' = "loading"
            /\ ClaimedEvents(cl.log) = EventsBeforeAwait(cl.opts)
            /\ findStateTemplate(restoreReplaceTarget(Dom(<<>>)), "placeholder")
                  => inner' = <<ViewNode("placeholder")>>
     /\ (SettleStep /\ last'.rendered) =>
         IsPrefix(ExpectedEvents(Len(last'.outcome.items), last'.opts),
                  ClaimedEvents(last'.log))]_vars

\* a cycle rendered two items with every hook provided
C7_Witness ==
  /\ last.rendered
  /\ last.opts = AllHooks
  /\ ClaimedEvents(last.log) = OrderedEvents(2)
  /\ state = "ready"

\* C8 as stated: on entering empty or error the configured template is
\* rendered into the element, and without one the content is cleared.
RenderedContent(s) ==
  LET IsRendered(n) == n \notin {TplNode(w) : w \in {"item", "placeholder", "empty", "error"}}
  IN SelectSeq(s, IsRendered)

C9_ErrorKeepsContent ==
  [][(/\ SettleStep
      /\ last'.from = "ready"
      /\ last'.outcome.kind = "notok") =>
      /\ state' = "error"
      /\ last'.view = last.view]_vars

\* C9 amended: for an element without the replace attribute, without a
\* placeholder template and without an error template, neither the start of
\* a reload of a ready element nor the failure of its fetch with an HTTP
\* error status changes the document, and the failure ends in error.
PlainElement == ~cfg.replace /\ ~cfg.placeholder /\ ~cfg.error

C9_ErrorKeepsContentPlain ==
  [][/\ (LoadStep /\ state = "ready" /\ PlainElement) =>
         /\ inner' = inner
         /\ parentKids' = parentKids
     /\ (/\ SettleStep
         /\ last'.from = "ready"
         /\ last'.outcome.kind = "notok"
         /\ PlainElement) =>
         /\ state' = "error"
         /\ last'.view = last.view
         /\ inner' = inner
         /\ parentKids' = parentKids]_vars

\* a failed reload of a ready element left the rendered items in place
C9_Witness ==
  /\ last.from = "ready"
  /\ last.alone
  /\ last.outcome.kind = "notok"
  /\ ~cfg.replace /\ ~cfg.placeholder /\ ~cfg.error
  /\ state = "error"
  /\ inner = RenderedNodes(1, <<1, 2>>)

\* C10: a null payload of a fetch-json is an error transition like every
\* other: the element enters error, the error template is rendered and the
\* observers are told through onStateChange(error).
JSettleStep == jlast'.c # jlast.c

C10_NullPayloadIsError ==
  [][(JSettleStep /\ jlast'.outcome.kind = "null") =>
      /\ jstate' = "error"
      /\ findStateTemplateJson("error") => jinner' = <<ViewNode("error")>>
      /\ Provided(jlast'.opts, "onStateChange")
           => Ev("state:error", 0) \in Range(jlast'.log)]_vars

\* C11: the promise of a batch call rejects only if every component of the
\* batch failed: it is never rejected while a component of the batch has
\* loaded.
C11_BatchRejectsOnlyIfAllFailed ==
  BatchPromise = "rejected" =>
    \A e \in HtmlElems : hbatch.members[e] # "loaded"

\* C12: a fetchHtml call over the document processes every fetch-html in
\* it, whatever happens to the others: after a triggered call no element of
\* the document is left without a load started.
C12_SiblingsProcessed ==
  [][\A options \in HtmlOptionInputs :
       FetchHtml(0, TRUE, options) =>
         \A e \in HtmlElems :
           hattached[e] => hstate'[e] \in {"loading", "loaded", "error"}]_vars

\* C13: fetchHtml(element) on an idle element with load="manual" starts its
\* load: the element is loading and a fetch for it is outstanding.
C13_ManualElementLoads ==
  [][\A e \in HtmlElems :
       (/\ FetchHtml(e, TRUE, NoOptions)
        /\ hcfg[e].load = "manual"
        /\ hstate[e] \in {"none", "idle"}
        /\ hattached[e]) =>
         /\ hstate'[e] = "loading"
         /\ Len(hfetch'[e]) = Len(hfetch[e]) + 1]_vars

\* C14: a fetch-list with load="lazy" that is in the document at
\* DOMContentLoaded starts a load once it has entered the viewport, without
\* a call of fetchList() or reload().
C14_LazyEventuallyLoads ==
  (cfg.load = "lazy" /\ cycles = 0) ~> (cycles > 0)

\* C15: the data-state of a fetch-json is idle, loading, loaded or error
\* (absent before the first scan), and loaded after a successful render.
C15_JsonStates ==
  /\ jstate \in {"none", "idle", "loading", "loaded", "error"}
  /\ (jlast.endState # "none" /\ jlast.promise = "resolved"
        /\ jlast.outcome.kind = "object" /\ JOutstanding = {})
       => jstate \in {"loaded", "loading", "idle"}

\* C16: the data-state of a fetch-html only moves idle->loading,
\* loading->loaded, loading->error and error->loading (the absent attribute
\* of a fresh element counts as idle), and once it is loaded no step changes
\* it or issues another fetch for the element.
HtmlEdges ==
  {<<"none", "idle">>, <<"none", "loading">>, <<"idle", "loading">>,
   <<"loading", "loaded">>, <<"loading", "error">>, <<"error", "loading">>}

C16_HtmlEdgesLoadedFinal ==
  [][\A e \in HtmlElems :
       /\ hstate'[e] # hstate[e] => <<hstate[e], hstate'[e]>> \in HtmlEdges
       /\ (hstate[e] = "loaded" /\ hfetch[e] = <<>>) => hfetch'[e] = <<>>]_vars


\* ------------------------------------------------------------- nested lists
\* the descriptor attached to the top-level nodes of a rendered instance
ItemDescriptorOf(inst) ==
  idom[N(inst, IF N(inst, "W") \in DOMAIN idom THEN "W" ELSE "S")].desc

InnerLists == {n \in DOMAIN idom : tagName(n) = "INNER-LIST"}

RendersOwnItem(L) ==
  idom[L].gov.some /\ idom[L].gov = ItemDescriptorOf(L.inst)

\* C17: an inner-list that renders the orders of the item it was rendered
\* for produces one instance per order, in order, and in each instance
\* {parent.id} is the id of that item and {id} the id of the order.
C17_ParentAndOwnFields ==
  \A L \in InnerLists :
    RendersOwnItem(L) =>
      LET item == idom[L].gov.data
          orders == item.orders
          X == L.inst
      IN /\ idom[L].kids =
              Flatten([k \in 1..Len(orders) |->
                         TopNodes(Append(X, k), ShapeAt(Len(X) + 1))])
         /\ \A k \in 1..Len(orders) :
              /\ N(Append(X, k), "S") \in DOMAIN idom
              /\ idom[N(Append(X, k), "S")].text.parent = <<item.id>>
              /\ idom[N(Append(X, k), "S")].text.id = <<orders[k].id>>
         /\ N(Append(X, Len(orders) + 1), "S") \notin DOMAIN idom

\* the item {id: 1, orders: [{id: 10}, {id: 11}]} has yielded 1-10, 1-11
C17_Witness ==
  /\ N(<<1>>, "L") \in DOMAIN idom
  /\ RendersOwnItem(N(<<1>>, "L"))
  /\ idom[N(<<1>>, "L")].gov.data.id = 1
  /\ Len(idom[N(<<1>>, "L")].gov.data.orders) = 2
  /\ N(<<1, 2>>, "S") \in DOMAIN idom
  /\ idom[N(<<1, 1>>, "S")].text.parent = <<1>>
  /\ idom[N(<<1, 1>>, "S")].text.id = <<10>>
  /\ idom[N(<<1, 2>>, "S")].text.parent = <<1>>
  /\ idom[N(<<1, 2>>, "S")].text.id = <<11>>

\* C18: every inner-list in the rendered markup, whatever its place in its
\* template and its depth, has been rendered with the descriptor of the
\* instance it belongs to as its governing descriptor.
C18_NearestItemGoverns ==
  \A L \in InnerLists :
    idom[L].seen /\ idom[L].gov = ItemDescriptorOf(L.inst)

\* the top-level nodes of rendered instances, which carry their descriptor
ItemNodes ==
  {n \in DOMAIN idom : n.role = "W" \/ (n.role = "S" /\ idom[n].desc.some)}

\* C19: a descriptor at nesting depth d has d ancestors, the enclosing item
\* followed by the ancestors of the enclosing descriptor, its root is the
\* top-level item of its chain, and {root.id} renders the id of that item.
C19_AncestorsAndRoot ==
  \A n \in ItemNodes :
    LET desc == idom[n].desc
        d == Len(n.inst) - 1
        enclosing == ItemDescriptorOf(SubSeq(n.inst, 1, d))
        top == ItemDescriptorOf(<<n.inst[1]>>).data
    IN /\ Len(desc.ancestors) = d
       /\ d > 0 => desc.ancestors = <<enclosing.data>> \o enclosing.ancestors
       /\ desc.root = top
       /\ idom[N(n.inst, "S")].text.root = <<top.id>>

\* ------------------------------------------------------------- formatters
DistinctKeys(pairs) ==
  \A i, j \in 1..Len(pairs) : pairs[i].key = pairs[j].key => i = j

\* C20: {status|map(k1=a1,k2=a2,...)} renders ai when the value is ki, for
\* every position i of the list, and the value itself when it is none of
\* the keys.
C20_MapEveryPair ==
  (tout # NotRendered /\ DistinctKeys(tin.pairs)) =>
    /\ \A i \in 1..Len(tin.pairs) :
         tin.status = <<tin.pairs[i].key>> => tout = <<tin.pairs[i].val>>
    /\ (\A i \in 1..Len(tin.pairs) : tin.status # <<tin.pairs[i].key>>)
         => tout = tin.status

\* ------------------------------------------------------------- placeholders
\* C21: each argument parsePlaceholder returns is the argument text without
\* its one outer pair of matching quote characters, and the text itself when
\* it is not wrapped in such a pair.
C21_ArgumentQuotesStripped ==
  tout # NotRendered =>
    /\ Len(tout) = Len(tin)
    /\ \A i \in 1..Len(tin) :
         tout[i] = IF tin[i].open # "" /\ tin[i].open = tin[i].close
                     THEN <<tin[i].word>>
                     ELSE ArgText(tin[i])

\* the text a value shows as
Shown(v) ==
  CASE v.t = "string" -> v.s
    [] v.t = "number" -> IF v.n = 0 THEN <<"0">> ELSE <<"5">>
    [] v.t = "boolean" -> IF v.n = 1 THEN <<"true">> ELSE <<"false">>
    [] OTHER -> <<>>

RenderedItems == 1..Len(trun.nodes)

\* C22: an item rendered while the formatter of {name|custom} is not
\* registered shows the unformatted name, and a warning for that formatter
\* has been logged.
C22_UnknownFormatterDiagnosed ==
  \A i \in RenderedItems :
    (trun.template = TemplateFormatted /\ ~has(trun.used[i], <<"custom">>)) =>
      /\ trun.nodes[i].text =
           trun.items[i].name.s \o <<" ">> \o Shown(trun.items[i].count)
      /\ \E j \in 1..Len(trun.log) :
           trun.log[j] = Diagnostic("warn", <<"custom">>)

\* C23: no exception of a formatter leaves the renderer; an item rendered
\* with a registered formatter shows the formatter's result, or the
\* unformatted value when the formatter throws, and the placeholders after
\* it are rendered.
C23_FormatterThrowContained ==
  /\ trun.pc # "threw"
  /\ \A i \in RenderedItems :
       (trun.template = TemplateFormatted /\ has(trun.used[i], <<"custom">>)) =>
         LET name == trun.items[i].name.s
             fn == trun.used[i][<<"custom">>]
         IN trun.nodes[i].text =
              (IF fn = "throws" THEN name ELSE name \o <<"!">>)
                \o <<" ">> \o Shown(trun.items[i].count)

\* a list of two items was rendered to the end although the formatter of
\* the first item threw
C23_Witness ==
  /\ trun.pc = "done"
  /\ trun.template = TemplateFormatted
  /\ Len(trun.nodes) = 2
  /\ has(trun.used[1], <<"custom">>)
  /\ trun.used[1][<<"custom">>] = "throws"
  /\ trun.nodes[1].text = trun.items[1].name.s \o <<" ">> \o Shown(trun.items[1].count)

\* C24: placeholders without formatter show the string conversion of the
\* resolved value (0 as 0, false as false), nothing for null and undefined,
\* and every occurrence in a text and in an attribute value is replaced.
C24_PlainSubstitution ==
  \A i \in RenderedItems :
    LET item == trun.items[i]
    IN /\ trun.template = TemplatePlain =>
            /\ trun.nodes[i].text =
                 Shown(item.count) \o <<"-">> \o Shown(item.flag) \o <<"-", "-">>
            /\ trun.nodes[i].attr =
                 <<"id-">> \o Shown(item.count) \o Shown(item.count)
       /\ trun.template = TemplateEdges =>
            /\ trun.nodes[i].text = item.name.s \o <<"{", "}", "{">>
            /\ trun.nodes[i].attr = item.name.s \o Shown(item.count)

\* the item {count: 0, flag: false} has been rendered as 0-false--
C24_Witness ==
  /\ trun.template = TemplatePlain
  /\ Len(trun.nodes) >= 1
  /\ trun.items[1] = ItemAnn
  /\ trun.nodes[1].text = <<"0", "-", "false", "-", "-">>
  /\ trun.nodes[1].attr = <<"id-", "0", "0">>

\* C27: a finished renderList call has one descriptor and one rendered node
\* per item, in input order, each rendered with index, first and last of its
\* position, also when hooks threw; a non-array or empty input gives none.
C27_OneDescriptorPerItem ==
  /\ \A i \in RenderedItems :
       /\ trun.descriptors[i].data = trun.items[i]
       /\ trun.contexts[i].index = i - 1
       /\ trun.contexts[i].first = (i = 1)
       /\ trun.contexts[i].last = (i = Len(trun.items))
       /\ trun.nodes[i] =
            processTemplate(trun.template, trun.items[i], trun.contexts[i],
                            trun.used[i]).node
  /\ Len(trun.descriptors) = Len(trun.nodes)
  /\ trun.pc = "done" =>
       /\ Len(trun.nodes) = Len(trun.items)
       /\ ~trun.array => trun.nodes = <<>>
  /\ trun.pc \in {"idle", "rendering", "done"}

\* two different items were rendered in order although a hook threw
C27_Witness ==
  /\ trun.pc = "done"
  /\ Len(trun.nodes) = 2
  /\ trun.items[1] # trun.items[2]
  /\ trun.nodes[1] # trun.nodes[2]
  /\ \E j \in 1..Len(trun.log) :
       trun.log[j] = Diagnostic("error", <<"beforeRender">>)

\* C29: a step of a render keeps the nodes rendered before it and renders
\* the next item with the registry as the earlier hooks left it.
C29_MidRenderRegistryChange ==
  [][(trun.pc = "rendering" /\ trun'.k = trun.k + 1) =>
       /\ \A j \in 1..trun.k : trun'.nodes[j] = trun.nodes[j]
       /\ trun'.nodes[trun.k + 1] =
            processTemplate(trun.template, trun.items[trun.k + 1],
                            ItemContext(trun.items, trun.k + 1), treg).node]_vars

\* the same item was rendered twice with different text because the hook
\* of the first changed the registry
C29_Witness ==
  /\ Len(trun.nodes) = 2
  /\ trun.items[1] = trun.items[2]
  /\ trun.used[1] # trun.used[2]
  /\ trun.nodes[1].text # trun.nodes[2].text

\* ------------------------------------------------------------- paths
\* C25: a path of k >= 1 leading parent segments resolves its remaining
\* segments against the k-th nearest ancestor, and is undefined when the
\* context has fewer than k ancestors.
C25_ParentSegments ==
  (tout # NotRendered /\ tin.lead = "none" /\ tin.k >= 1) =>
    tout = IF tin.k > tin.depth THEN <<"undefined">>
           ELSE Observed(WalkPath(Ancestor(tin.k), tin.rest))

\* parent.parent.x below two ancestors is field x of the second
C25_Witness ==
  /\ tin.lead = "none"
  /\ tin.k = 2
  /\ tin.depth = 2
  /\ tin.rest = <<"x">>
  /\ tout = <<"number", "4">>

\* C26: after a first segment data or this every further segment, also
\* parent, is a field of the current item; after a first segment root the
\* base is the root of the context, or the current item without one.
C26_DataThisRoot ==
  (tout # NotRendered /\ tin.lead # "none") =>
    LET fields == [j \in 1..tin.k |-> "parent"] \o tin.rest
        base == IF tin.lead = "root" /\ tin.hasRoot THEN ResolveRoot
                ELSE ResolveItem
    IN tout = Observed(WalkPath(base, fields))

\* data.parent below an ancestor is the item's own field parent
C26_Witness ==
  /\ tin.lead = "data"
  /\ tin.k = 1
  /\ tin.rest = <<>>
  /\ tin.depth >= 1
  /\ tout = <<"string", "own">>

\* ------------------------------------------------------------- registry
\* C28: a name is registered exactly when the last successful call for it
\* was a register, with the function of that call; unregister returns true
\* exactly when the name was registered before the call; apply uses the
\* function of the last register, or returns the value for no function.
C28_LastWriteWins ==
  [][/\ \A n \in FormatterNames :
          /\ has(treg', n) <=> thist'[n].op = "register"
          /\ has(treg', n) => treg'[n] = thist'[n].fn
     /\ tres'.op = "unregister" => tres'.returned = has(treg, tres'.name)
     /\ tres'.op = "apply" =>
          tres'.out =
            IF thist[tres'.name].op # "register"
                 \/ thist[tres'.name].fn = "throws"
              THEN <<"ann">>
            ELSE IF thist[tres'.name].fn = "suffix" THEN <<"ann", "!">>
            ELSE IF thist[tres'.name].fn = "upper" THEN <<"ANN">>
            ELSE <<"ann">>]_vars

\* upper was registered again with another function, and apply used it
C28_Witness ==
  /\ has(treg, <<"upper">>)
  /\ treg[<<"upper">>] = "suffix"
  /\ tres.op = "apply"
  /\ tres.name = <<"upper">>
  /\ tres.out = <<"ann", "!">>

\* ------------------------------------------------------------- empty payload
\* C30: a cycle whose fetched payload is an empty array ends in empty, and
\* beforeItemRender is not called in it.
C30_EmptyPayloadEndsEmpty ==
  [][(SettleStep /\ last'.outcome.kind = "array" /\ last'.outcome.items = <<>>) =>
       /\ last'.endState = "empty"
       /\ state' = "empty"
       /\ \A i \in 1..Len(last'.log) : last'.log[i].e # "beforeItemRender"]_vars
\* ------------------------------------------------------------- controller
\* C31: reload() on a fetch-list whose data-state is loading issues no
\* fetch, calls no hook, leaves the data-state and the document as they
\* are, and returns a resolved promise.
C31_ReloadWhileLoadingIsNoOp ==
  (state = "loading" /\ controller # "none") =>
    \A overrides \in OptionInputs :
      LET r == BeforeAwait(Dom(<<>>), Merge(currentOptions, overrides))
      IN /\ ~r.started
         /\ r.dom = Dom(<<>>)
         /\ r.promise = "resolved"

\* a replace-mode element is loading, its anchor is in the document, and a
\* call of reload() is a step that changes nothing
C31_Witness ==
  /\ state = "loading"
  /\ controller = "attached"
  /\ cfg.replace
  /\ anchor
  /\ Cardinality(Outstanding) = 1
  /\ ENABLED (Reload(NoOptions) /\ UNCHANGED vars)

\* C32: fetchList(element, options) on an element that has a controller
\* returns that controller: no controller is created, the options are
\* merged into the stored ones and no load starts; on an element without
\* one (never initialised, or destroyed) a controller is created with the
\* options given.
C32_FetchListReusesController ==
  [][\A options \in OptionInputs :
       FetchList(options) =>
         IF controller = "attached"
           THEN /\ controller' = controller
                /\ currentOptions' = Merge(currentOptions, options)
                /\ UNCHANGED <<state, inner, parentKids, replacedNodes,
                               anchor, calls, cycles, last, lazy>>
           ELSE /\ controller' = "attached"
                /\ currentOptions' = options]_vars

\* an element with load="auto" that has a controller and has finished its
\* load: fetchList(element, hooks) stores the hooks and starts nothing
C32_Witness ==
  /\ controller = "attached"
  /\ cfg.load = "auto"
  /\ state = "ready"
  /\ currentOptions = NoOptions
  /\ ENABLED (/\ FetchList(AllHooks)
              /\ currentOptions' = AllHooks
              /\ UNCHANGED <<state, cycles, calls, controller>>)

\* C33: when every fetch settles, a component that enters loading
\* eventually leaves it, also when a hook such as request() throws: no
\* behaviour leaves a component in loading forever; here for fetch-html.
C33_LoadingEventuallyEnds ==
  \A e \in HtmlElems : (hstate[e] = "loading") ~> (hstate[e] # "loading")

\* C34: after destroy() the data-state is idle and stays idle, and the
\* content does not change, until fetchList() or reload() is called: neither
\* the completion of a fetch started before destroy() nor a pending lazy
\* trigger changes the element.
C34_DestroyedStaysIdle ==
  [][(/\ controller = "destroyed"
      /\ state = "idle"
      /\ (SettleStep \/ LazyIntersect \/ LazyTimeout)) =>
      /\ state' = "idle"
      /\ inner' = inner
      /\ parentKids' = parentKids]_vars

\* the payload elements shown in the document: the values of the rendered
\* items among the children of the parent and, when the element is in the
\* document, among its own children
ItemValues(s) ==
  LET IsItem(n) == n.k = "item"
      items == SelectSeq(s, IsItem)
  IN [i \in 1..Len(items) |-> items[i].v]

ShownValues ==
  ItemValues(parentKids)
    \o (IF ElNode \in Range(parentKids) THEN ItemValues(inner) ELSE <<>>)

\* C35: whenever the data-state of a fetch-list whose template attribute
\* names a template of the document is ready, the rendered content is the
\* rendering of the payload fetched last: one item per payload element, in
\* order, wherever the template is placed.
C35_ReadyShowsLatestPayload ==
  (state = "ready" /\ cfg.tpl = "found") => ShownValues = last.outcome.items

\* C36: for a fetch-list with the replace attribute, every rendered node
\* that is among the children of the parent is listed in the element's
\* replaced-nodes record, so that the next cycle removes it; also when two
\* loads of the element overlap.
C36_SplicedNodesRecorded ==
  cfg.replace =>
    \A n \in Range(parentKids) : n.k = "item" => n \in Range(replacedNodes)

\* C37: over every sequence of fetchJson() calls, lazy triggers and fetch
\* completions at most one fetch of the fetch-json element is outstanding
\* at a time.
C37_OneJsonFetchOutstanding == Cardinality(JOutstanding) <= 1

\* C38: reload(overrides) runs its cycle with the stored options overlaid
\* by the overrides, key by key, and does not change the stored options,
\* which only fetchList() and setOptions() change; reload() without argument
\* runs with exactly the stored options.
C38_ReloadOverridesNotStored ==
  [][/\ \A overrides \in OverrideInputs :
          Reload(overrides) =>
            /\ currentOptions' = currentOptions
            /\ LoadStep =>
                 LET used == calls'[cycles'].opts
                 IN /\ DOMAIN used = DOMAIN currentOptions \cup DOMAIN overrides
                    /\ \A h \in DOMAIN overrides : used[h] = overrides[h]
                    /\ \A h \in DOMAIN currentOptions \ DOMAIN overrides :
                         used[h] = currentOptions[h]
     /\ (Reload(NoOptions) /\ LoadStep) => calls'[cycles'].opts = currentOptions
     /\ currentOptions' # currentOptions =>
          \/ \E options \in StoredOptionInputs : FetchList(options)
          \/ \E newOptions \in NewOptionInputs : SetOptions(newOptions)]_vars

\* a cycle ran with a listener that came from the overrides and an error
\* hook that came from the stored options, the stored options are as
\* before, and a reload() without argument runs with them
C38_Witness ==
  /\ currentOptions = [h \in {"onStateChange", "onError"} |-> "ok"]
  /\ last.c = 1
  /\ last.opts = [onStateChange |-> "throws", onError |-> "ok"]
  /\ ENABLED (/\ Reload(NoOptions)
              /\ cycles' = 2
              /\ calls'[2].opts = currentOptions)

\* ------------------------------------------------------------- string formatters
\* C39: a placeholder whose path resolves to undefined or null and that
\* applies a string formatter is replaced by the empty string.
C39_MissingFormattedIsEmpty ==
  (/\ tout # NotRendered
   /\ resolved(resolveKey(tin.item, <<tin.path>>, EmptyContext)).t
        \in {"undefined", "null"}) =>
    tout = tin.lead

====
